---- MODULE Spec2Model ----
(***************************************************************************)
(* A model of dbx: provisioning of MongoDB instances on a remote host.     *)
(* The port allocator (provision/port-allocator.ts), the reconciliation    *)
(* engine (provision/reconciliation.ts), the two state stores              *)
(* (state/manager.ts, state/remote.ts), the provisioning orchestrator      *)
(* (provision/orchestrator.ts), the readiness wait (provision/mongodb.ts), *)
(* the SSH client (ssh/client.ts exec and execWithRetry), the docker       *)
(* set-up (ssh/docker.ts), the destroy command (commands/destroy.ts), the  *)
(* sync command (commands/sync.ts), the instance keys (state/schema.ts),   *)
(* two concurrent runs, and the commands issued one after the other.       *)
(***************************************************************************)
EXTENDS Integers, Sequences, FiniteSets, TLC

(***************************************************************************)
(* Bounds of the model.                                                    *)
(***************************************************************************)
\* how many ports below MAX_PORT the allocator's inputs may record
PortWindow == 3

(***************************************************************************)
(* Program constants.                                                      *)
(***************************************************************************)
MIN_PORT == 1024
MAX_PORT == 65535
HIGH_PORT_WARNING == 65500

\* the absent entry of a collection (state.instances[key] === undefined)
NoRec == [absent |-> TRUE]

VARIABLES
  paLocal,    \* findNextPort: the localState argument
  paRemote,   \* findNextPort: the remoteState argument
  paBase,     \* findNextPort: the basePort argument
  paResult,   \* findNextPort: what the call produced (NoResult before it)
  local,      \* .dbx/state.json on the controller: the instances it holds
  remote,     \* /var/lib/dbx/state.json on the host: the instances it holds
  remoteDir,  \* whether /var/lib/dbx exists on the host and the user can write in it
  containers, \* the docker containers of the host, by name: status and bound port
  rec,        \* the last reconcileInstanceState call: its inputs and what it produced
  nrec,       \* how many reconcileInstanceState calls SpecRecon has made
  docker,     \* docker on the host: "absent", "stopped" or "running"
  volumes,    \* the docker volumes of the host, by name
  image,      \* whether the mongo image is present on the host
  users,      \* the containers whose mongod has the application user
  pc,         \* provisionInstance: the step the run is at ("idle" between runs)
  runEnv,     \* provisionInstance: options.env of the run
  sess,       \* provisionInstance: whether the run's sshClient is connected
  allocPort,  \* provisionInstance: the port allocated in step 4
  creds,      \* provisionInstance: the credentials generated in step 5
  reconMeta,  \* provisionInstance: reconciliation.metadata of step 2
  steps,      \* the steps of the run whose call has returned without throwing
  cmds,       \* the kinds of resource command the run has issued on the host
  result,     \* how the last run ended: a ProvisionResult or the error thrown
  nruns,      \* how many runs have been started
  provisioned,\* the keys a run has provisioned, none of them destroyed since
  second,     \* whether the run was started for a key in `provisioned`
  sessions,   \* provisionInstance: the most SSH sessions open at once in the run
  wrec,       \* the last waitForMongoReady call of SpecWait: inputs and outcome
  nwait,      \* how many waitForMongoReady calls SpecWait has made
  rt,         \* execWithRetry: the call in progress (SpecRetry)
  lfile,      \* SpecStore: the condition of .dbx/state.json on the controller
  rfile,      \* SpecStore: the condition of /var/lib/dbx/state.json on the host
  slog,       \* SpecStore: the store calls made so far, with their outcomes
  wop,        \* SpecWrite: the state write in progress, step by step
  xop,        \* SpecExec: the SSHClient.exec call in progress, event by event
  dkr,        \* SpecDocker: the ensureDockerReady calls made, with their outcomes
  dst,        \* SpecDestroy: the destroy command in progress
  syn,        \* SpecSync: the sync commands run, with their outcomes
  kop,        \* SpecKey: the names given to `up` and what became of them
  con,        \* SpecPair: the two concurrent provisioning runs
  sys         \* SpecSystem: the commands issued and the ports allocated

paVars == <<paLocal, paRemote, paBase, paResult>>

storeVars == <<local, remote, remoteDir>>

reconVars == <<rec, nrec>>

hostVars == <<containers, docker, volumes, image, users>>

runVars == <<pc, runEnv, sess, allocPort, creds, reconMeta, steps, cmds, result, nruns,
             provisioned, second, sessions>>

waitVars == <<wrec, nwait>>

\* the variables of the specifications of single functions other than
\* findNextPort and reconcileInstanceState
fileVars == <<lfile, rfile, slog>>

moreVars == <<syn, kop, con, sys>>

unitVars == <<wop, xop, dkr, dst, moreVars>>

auxVars == <<waitVars, rt, fileVars, unitVars>>

vars == <<paLocal, paRemote, paBase, paResult, local, remote, remoteDir, containers,
          rec, nrec, docker, volumes, image, users, pc, runEnv, sess, allocPort, creds,
          reconMeta, steps, cmds, result, nruns, provisioned, second, sessions, wrec,
          nwait, rt, lfile, rfile, slog, wop, xop, dkr, dst, syn, kop, con, sys>>

NoWait == [called |-> FALSE]

WaitIdle == wrec = NoWait /\ nwait = 0

NoRetry == [pc |-> "idle"]

RetryIdle == rt = NoRetry

\* the specifications other than SpecStore work on state files that are
\* absent or intact and do not follow their condition
StoreIdle == lfile = "absent" /\ rfile = "absent" /\ slog = <<>>

NoWrite == [pc |-> "idle"]

NoExec == [pc |-> "idle"]

NoDockerCall == <<>>

NoDestroy == [pc |-> "idle"]

NoSync == <<>>

NoKeyOp == [called |-> FALSE]

NoPair == [pc |-> "idle"]

NoSystem == [pc |-> "idle"]

MoreIdle == syn = NoSync /\ kop = NoKeyOp /\ con = NoPair /\ sys = NoSystem

UnitIdle ==
  wop = NoWrite /\ xop = NoExec /\ dkr = NoDockerCall /\ dst = NoDestroy /\ MoreIdle

AuxIdle == WaitIdle /\ RetryIdle /\ StoreIdle /\ UnitIdle

(***************************************************************************)
(* State collections: a function from instance keys to a record or NoRec.  *)
(***************************************************************************)
Present(st) == {k \in DOMAIN st : st[k] # NoRec}

createEmptyState(keys) == [k \in keys |-> NoRec]

(***************************************************************************)
(* provision/port-allocator.ts                                             *)
(***************************************************************************)
NoResult == [called |-> FALSE]

PortAllocationError == [called |-> TRUE, throws |-> TRUE, error |-> "PortAllocationError"]

Returned(p) == [called |-> TRUE, throws |-> FALSE, port |-> p]

\* validatePort: TRUE when it returns, FALSE when it throws
validatePort(port) == port >= MIN_PORT /\ port <= MAX_PORT

getUsedPortsFromLocalState(localState) == {localState[k].port : k \in Present(localState)}

\* mutant: the ports of the remote collection are forgotten
getAllUsedPorts_LocalOnly(localState, remoteState) ==
  getUsedPortsFromLocalState(localState)

getAllUsedPorts(localState, remoteState) ==
  getUsedPortsFromLocalState(localState) \cup {remoteState[k].port : k \in Present(remoteState)}

\* mutant: the scan stops one port short of MAX_PORT
RECURSIVE ScanPorts_ExclusiveMax(_, _)
ScanPorts_ExclusiveMax(port, usedPorts) ==
  IF port < MAX_PORT
  THEN IF port \notin usedPorts
       THEN IF validatePort(port) THEN Returned(port) ELSE PortAllocationError
       ELSE ScanPorts_ExclusiveMax(port + 1, usedPorts)
  ELSE PortAllocationError

\* the while loop of findNextPort, from the current value of `port`
RECURSIVE ScanPorts(_, _)
ScanPorts(port, usedPorts) ==
  IF port <= MAX_PORT
  THEN IF port \notin usedPorts
       THEN IF validatePort(port) THEN Returned(port) ELSE PortAllocationError
       ELSE ScanPorts(port + 1, usedPorts)
  ELSE PortAllocationError

findNextPort(localState, basePort, remoteState) ==
  IF ~validatePort(basePort)
  THEN PortAllocationError
  ELSE ScanPorts(basePort, getAllUsedPorts(localState, remoteState))

\* the keys of the collections findNextPort is applied to in SpecPort
PaKeys == {"app/dev", "app/prod"}

(***************************************************************************)
(* Configuration (dbx.config.json) and the names derived from it.          *)
(***************************************************************************)
Project == "app"

Envs == {"dev", "dev2"}

VpsHost == "vps.example.com"

\* config.mongodb.basePort: the default the init command proposes
BasePort == 27018

\* state/schema.ts createInstanceKey
createInstanceKey(project, env) == project \o "/" \o env

Keys == {createInstanceKey(Project, e) : e \in Envs}

\* orchestrator.ts: volumeName and containerName of a run
ResourceName(project, env) == "dbx_" \o project \o "_" \o env

\* a container name found in a stale or foreign record
OtherName == "dbx_app_old"

Names == {ResourceName(Project, e) : e \in Envs} \cup {OtherName}

\* what a name may be followed by inside another name of the model
NameSuffixes == {"2"}

\* docker's `--filter name=<filter>`: it selects the names that contain the filter
NameMatches(filter, name) ==
  filter = name \/ \E sfx \in NameSuffixes : filter \o sfx = name

NoContainer == [status |-> "none", port |-> 0]

(***************************************************************************)
(* state/manager.ts: the local store. The file is rewritten by temp file   *)
(* and rename, so a write that throws leaves the previous content.         *)
(***************************************************************************)
readState(loc) == loc

\* writeState: `w` is "ok" or "throws" (mkdir, writeFile or rename failing)
writeState(loc, state, w) ==
  [local |-> IF w = "ok" THEN state ELSE loc, throws |-> w # "ok"]

getInstance(loc, key) == readState(loc)[key]

\* mutant: the record is written into a fresh collection, not the one read
setInstance_NoMerge(loc, key, metadata, w) ==
  writeState(loc, [createEmptyState(Keys) EXCEPT ![key] = metadata], w)

setInstance(loc, key, metadata, w) ==
  writeState(loc, [readState(loc) EXCEPT ![key] = metadata], w)

\* mutant: the key is deleted from the collection read, which is never written
removeInstance_NoWrite(loc, key, w) ==
  [local |-> loc, throws |-> FALSE]

removeInstance(loc, key, w) ==
  IF readState(loc)[key] = NoRec
  THEN [local |-> loc, throws |-> FALSE]
  ELSE writeState(loc, [readState(loc) EXCEPT ![key] = NoRec], w)

LocalWrites == {"ok", "throws"}

(***************************************************************************)
(* state/remote.ts: the remote store, through SSHClient.exec. exec         *)
(* resolves whatever the exit code of the command; it rejects on a         *)
(* timeout, a stream error or a lost session (ssh/client.ts).              *)
(***************************************************************************)
\* outcomes of one exec: the call resolves or rejects
ExecOutcomes == {"resolve", "reject"}

\* readRemoteState: `r` is the outcome of `cat state.json`. A non-zero exit
\* code (no file) gives the empty collection, a rejection is rethrown.
readRemoteState(file, r) ==
  IF r = "reject"
  THEN [throws |-> TRUE, state |-> createEmptyState(Keys)]
  ELSE [throws |-> FALSE, state |-> file]

\* ensureRemoteStateDirectory: `test -d` resolves with any exit code and then
\* nothing is created; only when that exec rejects are mkdir and chmod run.
\*   "resolve": test -d resolved          "created": it rejected, mkdir worked
\*   "throws":  it rejected, and mkdir or chmod rejected as well
EnsureOutcomes == {"resolve", "created", "throws"}

ensureRemoteStateDirectory(dir, e) ==
  [dir |-> IF e = "created" THEN TRUE ELSE dir, throws |-> e = "throws"]

\* the four commands of writeRemoteState (cat > tmp, chmod, mv, test -f):
\*   "run":   all resolve; they take effect only where the directory is writable
\*   "nonzero": all resolve, the cat exits non-zero and leaves no temp file
\*              to move (SpecWrite follows the temp file step by step)
\*   "reject-early": cat or chmod rejects, nothing was moved
\*   "reject-late":  mv or test -f rejects after the move took effect
BodyOutcomes == {"run", "nonzero", "reject-early", "reject-late"}

writeRemoteState(dir, file, state, e, b) ==
  LET ens == ensureRemoteStateDirectory(dir, e)
      moved == ens.dir /\ b \in {"run", "reject-late"}
  IN IF ens.throws
     THEN [dir |-> ens.dir, file |-> file, throws |-> TRUE, moved |-> FALSE]
     ELSE [dir |-> ens.dir,
           file |-> IF moved THEN state ELSE file,
           throws |-> b \in {"reject-early", "reject-late"},
           moved |-> moved]

getRemoteInstance(file, key, r) ==
  LET rd == readRemoteState(file, r)
  IN [throws |-> rd.throws, metadata |-> rd.state[key]]

setRemoteInstance(dir, file, key, metadata, r, e, b) ==
  LET rd == readRemoteState(file, r)
  IN IF rd.throws
     THEN [dir |-> dir, file |-> file, throws |-> TRUE, wrote |-> FALSE]
     ELSE LET wr == writeRemoteState(dir, file, [rd.state EXCEPT ![key] = metadata], e, b)
          IN [dir |-> wr.dir, file |-> wr.file, throws |-> wr.throws, wrote |-> TRUE]

(***************************************************************************)
(* provision/mongodb.ts isContainerRunning                                 *)
(***************************************************************************)
\* stdout of `docker ps --filter name=<filter> --format "{{.Names}}"`
dockerPsNames(cs, filter) ==
  {n \in DOMAIN cs : cs[n].status = "running" /\ NameMatches(filter, n)}

\* `p` is the outcome of the exec; a rejection is caught and answers false
isContainerRunning(cs, containerName, p) ==
  IF p = "reject" THEN FALSE ELSE dockerPsNames(cs, containerName) = {containerName}

(***************************************************************************)
(* provision/reconciliation.ts                                             *)
(***************************************************************************)
\* what the environment decides during one reconcileInstanceState call
\* (an outcome is varied only where the others leave the call a use for it)
ReconEnvs ==
  {e \in [read : ExecOutcomes, probe : ExecOutcomes, read2 : ExecOutcomes,
          ensure : EnsureOutcomes, body : BodyOutcomes, lwrite : LocalWrites] :
     LET remoteQuiet == e.read2 = "resolve" /\ e.ensure = "resolve" /\ e.body = "run"
     IN /\ e.read = "reject" => (remoteQuiet /\ e.lwrite = "ok" /\ e.probe = "resolve")
        /\ e.read2 = "reject" => (e.ensure = "resolve" /\ e.body = "run")
        /\ e.ensure = "throws" => e.body = "run"
        /\ e.lwrite = "throws" => remoteQuiet}

\* `probe` is what the live probe answered ("none" when there was none,
\* "failed" when its exec rejected and isContainerRunning answered false) and
\* `writes` the state copies a write was started on
ReconOut(loc, dir, file, throws, reconciled, action, metadata, probe, writes) ==
  [local |-> loc, remoteDir |-> dir, remote |-> file, throws |-> throws,
   reconciled |-> reconciled, action |-> action, metadata |-> metadata,
   probe |-> probe, writes |-> writes]

\* mutant: only the ports are compared
hasConflict_PortOnly(localMetadata, remoteMetadata) ==
  localMetadata.port # remoteMetadata.port

\* mutant: the whole records are compared
hasConflict_WholeRecord(localMetadata, remoteMetadata) ==
  localMetadata # remoteMetadata

hasConflict(localMetadata, remoteMetadata) ==
  \/ localMetadata.port # remoteMetadata.port
  \/ localMetadata.containerName # remoteMetadata.containerName
  \/ localMetadata.dbName # remoteMetadata.dbName

reconcileInstanceState(loc, dir, file, cs, project, env, e) ==
  LET key == createInstanceKey(project, env)
      localMetadata == getInstance(loc, key)
      rm == getRemoteInstance(file, key, e.read)
      remoteMetadata == rm.metadata
  IN IF rm.throws
     THEN ReconOut(loc, dir, file, TRUE, FALSE, "none", NoRec, "none", {})
     ELSE IF remoteMetadata # NoRec /\ localMetadata = NoRec
     THEN \* Case 1: remote exists, local missing
          LET w == setInstance(loc, key, remoteMetadata, e.lwrite)
          IN ReconOut(w.local, dir, file, w.throws, TRUE, "copied-remote-to-local",
                      remoteMetadata, "none", {"local"})
     ELSE IF localMetadata # NoRec /\ remoteMetadata = NoRec
     THEN \* Case 2: local exists, remote missing
          IF isContainerRunning(cs, localMetadata.containerName, e.probe)
          THEN LET w == setRemoteInstance(dir, file, key, localMetadata,
                                          e.read2, e.ensure, e.body)
               IN ReconOut(loc, w.dir, w.file, w.throws, TRUE, "copied-local-to-remote",
                           localMetadata, "running",
                           IF w.wrote THEN {"remote"} ELSE {})
          ELSE LET w == removeInstance(loc, key, e.lwrite)
               IN ReconOut(w.local, dir, file, w.throws, TRUE, "removed-stale-local",
                           NoRec, IF e.probe = "reject" THEN "failed" ELSE "not-running",
                           {"local"})
     ELSE IF localMetadata # NoRec /\ remoteMetadata # NoRec
     THEN \* Case 3: both exist
          IF hasConflict(localMetadata, remoteMetadata)
          THEN LET w == setInstance(loc, key, remoteMetadata, e.lwrite)
               IN ReconOut(w.local, dir, file, w.throws, TRUE,
                           "resolved-conflict-from-remote", remoteMetadata, "none",
                           {"local"})
          ELSE ReconOut(loc, dir, file, FALSE, FALSE, "none", localMetadata, "none", {})
     ELSE \* Case 4: neither exists
          ReconOut(loc, dir, file, FALSE, FALSE, "none", NoRec, "none", {})

(***************************************************************************)
(* ssh/docker.ts ensureDockerReady, on its own SSHClient.                  *)
(***************************************************************************)
\* what the environment decides during one ensureDockerReady call:
\*   connect: the outcome of client.connect()
\*   install: the installer "works", "fails" (the script exits non-zero) or
\*            exits 0 and leaves no docker behind ("no-effect")
\*   start:   `sudo systemctl start docker` brings a stopped daemon "up", leaves
\*            it "down", or its exec rejects ("reject")
\*   denied:  whether the daemon refuses the configured user, so that a
\*            `docker ps` without sudo exits non-zero with 'permission denied'
\* The other execs of the call resolve.
DockerEnvs ==
  [connect : {"ok", "SSHConnectionError", "SSHAuthenticationError"},
   install : {"works", "fails", "no-effect"},
   start : {"up", "down", "reject"},
   denied : BOOLEAN]

\* a command issued by `fn` and how its exec ended (CommandOutcomes); the
\* settle delay of startDockerDaemon is logged as a command of its own
Cmd(fn, cmd, outcome) == [fn |-> fn, cmd |-> cmd, outcome |-> outcome]

ExitOf(success) == IF success THEN "ok" ELSE "nonzero"

\* checkDockerInstalled: `docker --version` exits 0 iff the binary is there
checkDockerInstalled(d) ==
  [version |-> d # "absent",
   log |-> <<Cmd("checkDockerInstalled", "docker --version", ExitOf(d # "absent"))>>]

\* mutant: the verification after the installer is not acted on, docker is
\* taken to be installed
installDocker_AssumesInstalled(d, e) ==
  [docker |-> "stopped", throws |-> e.install = "fails",
   log |-> <<Cmd("installDocker", "curl -fsSL https://get.docker.com -o get-docker.sh", "ok"),
             Cmd("installDocker", "sudo sh get-docker.sh", ExitOf(e.install # "fails")),
             Cmd("installDocker", "rm -f get-docker.sh", "ok")>>
           \o (IF e.install = "fails" THEN <<>>
               ELSE <<Cmd("checkDockerInstalled", "docker --version",
                          ExitOf(e.install = "works"))>>)]

\* installDocker: download, run the script (a non-zero exit throws), remove
\* the script, and verify with checkDockerInstalled (nothing found throws);
\* a fresh installation leaves the daemon stopped
installDocker(d, e) ==
  LET script == <<Cmd("installDocker", "curl -fsSL https://get.docker.com -o get-docker.sh", "ok"),
                  Cmd("installDocker", "sudo sh get-docker.sh", ExitOf(e.install # "fails")),
                  Cmd("installDocker", "rm -f get-docker.sh", "ok")>>
      after == IF e.install = "works" THEN "stopped" ELSE d
      verify == checkDockerInstalled(after)
  IN IF e.install = "fails"
     THEN [docker |-> d, throws |-> TRUE, log |-> script]
     ELSE [docker |-> after, throws |-> ~verify.version, log |-> script \o verify.log]

\* checkDockerDaemon: `docker ps` as the configured user, without sudo
checkDockerDaemon(d, e) ==
  [running |-> d = "running" /\ ~e.denied,
   log |-> <<Cmd("checkDockerDaemon", "docker ps", ExitOf(d = "running" /\ ~e.denied))>>]

\* mutant: the daemon is not probed again after the start command
startDockerDaemon_NoReprobe(d, e) ==
  LET after == IF d = "stopped" /\ e.start = "up" THEN "running" ELSE d
  IN [docker |-> after, throws |-> e.start = "reject",
      log |-> <<Cmd("startDockerDaemon", "sudo systemctl start docker",
                    IF e.start = "reject" THEN "reject" ELSE ExitOf(after = "running"))>>]

\* startDockerDaemon: the start command (its exit code is not read; a
\* rejected exec throws DockerDaemonError), 2000 ms of settling, and
\* checkDockerDaemon again, whose `false` throws DockerDaemonError
startDockerDaemon(d, e) ==
  LET after == IF d = "stopped" /\ e.start = "up" THEN "running" ELSE d
      probe == checkDockerDaemon(after, e)
  IN IF e.start = "reject"
     THEN [docker |-> d, throws |-> TRUE,
           log |-> <<Cmd("startDockerDaemon", "sudo systemctl start docker", "reject")>>]
     ELSE [docker |-> after, throws |-> ~probe.running,
           log |-> <<Cmd("startDockerDaemon", "sudo systemctl start docker",
                         ExitOf(after = "running")),
                     Cmd("startDockerDaemon", "settle", "ok")>> \o probe.log]

\* ensureDockerPermissions: `docker ps` once more; when it exits non-zero with
\* 'permission denied' or 'Cannot connect to the Docker daemon' the user is
\* added to the docker group; nothing is thrown
ensureDockerPermissions(d, e) ==
  LET allowed == d = "running" /\ ~e.denied
      probe == <<Cmd("ensureDockerPermissions", "docker ps", ExitOf(allowed))>>
  IN IF allowed
     THEN [group |-> FALSE, log |-> probe]
     ELSE [group |-> TRUE,
           log |-> probe \o <<Cmd("ensureDockerPermissions", "sudo usermod -aG docker", "ok")>>]

\* ensureDockerReady from the daemon check on (docker.ts 336-351)
DaemonAndPermissions(d, e, log) ==
  LET probe == checkDockerDaemon(d, e)
      start == startDockerDaemon(d, e)
      up == IF probe.running THEN d ELSE start.docker
      log2 == log \o probe.log \o (IF probe.running THEN <<>> ELSE start.log)
      perm == ensureDockerPermissions(up, e)
  IN IF ~probe.running /\ start.throws
     THEN [docker |-> up, throws |-> TRUE, error |-> "DockerDaemonError", log |-> log2,
           group |-> FALSE]
     ELSE [docker |-> up, throws |-> FALSE, error |-> "none", log |-> log2 \o perm.log,
           group |-> perm.group]

\* ensureDockerReady(sshConfig, username) on a host whose docker is `d`: what
\* becomes of docker, whether and what it throws, the commands it issued in
\* order and whether the user was added to the docker group
ensureDockerReady(d, e) ==
  LET found == checkDockerInstalled(d)
      inst == installDocker(d, e)
      again == checkDockerInstalled(inst.docker)
  IN IF e.connect # "ok"
     THEN [docker |-> d, throws |-> TRUE, error |-> e.connect, log |-> <<>>, group |-> FALSE]
     ELSE IF found.version
     THEN DaemonAndPermissions(d, e, found.log)
     ELSE IF inst.throws
     THEN [docker |-> inst.docker, throws |-> TRUE, error |-> "DockerInstallationError",
           log |-> found.log \o inst.log, group |-> FALSE]
     ELSE IF ~again.version
     THEN [docker |-> inst.docker, throws |-> TRUE, error |-> "DockerInstallationError",
           log |-> found.log \o inst.log \o again.log, group |-> FALSE]
     ELSE DaemonAndPermissions(inst.docker, e, found.log \o inst.log \o again.log)

(***************************************************************************)
(* provision/mongodb.ts: volume, image, container, readiness.              *)
(***************************************************************************)
\* outcomes of an exec whose command changes the host: it resolves with exit
\* code 0, resolves with a non-zero exit code, or rejects
CommandOutcomes == {"ok", "nonzero", "reject"}

CreateVolumeEnvs == [inspect : ExecOutcomes, create : CommandOutcomes, verify : ExecOutcomes]

\* createVolume: an existing volume is reused; otherwise `docker volume create`
\* is issued and neither its exit code nor the one of the verification is read
createVolume(vols, volumeName, e) ==
  IF e.inspect = "resolve" /\ volumeName \in vols
  THEN [volumes |-> vols, throws |-> FALSE, issued |-> {}]
  ELSE [volumes |-> IF e.create = "ok" THEN vols \cup {volumeName} ELSE vols,
        throws |-> e.create = "reject" \/ e.verify = "reject",
        issued |-> {"volume-create"}]

PullImageEnvs == [inspect : ExecOutcomes, pull : CommandOutcomes]

pullMongoImage(img, e) ==
  IF e.inspect = "resolve" /\ img
  THEN [image |-> img, throws |-> FALSE, issued |-> {}]
  ELSE [image |-> img \/ e.pull = "ok", throws |-> e.pull = "reject",
        issued |-> {"image-pull"}]

\* the ports bound on the host by running containers
BoundPorts(cs) == {cs[n].port : n \in {m \in DOMAIN cs : cs[m].status = "running"}}

\* `docker run -d --name <name> -p <port>:27017 -v <volume>:/data/db`, as docker
\* performs it: a name in use is refused; a container whose port is taken is
\* created and not started; `x` says whether mongod stays up ("up"), exits at
\* once ("crash") or the daemon refuses the command ("refused")
dockerRun(cs, vols, name, p, volumeName, x) ==
  IF cs[name].status # "none" \/ x = "refused"
  THEN [containers |-> cs, volumes |-> vols]
  ELSE [containers |->
          [cs EXCEPT ![name] =
             [status |-> IF p \in BoundPorts(cs) \/ x = "crash" THEN "stopped" ELSE "running",
              port |-> p]],
        volumes |-> vols \cup {volumeName}]

StartContainerEnvs ==
  [run : {"up", "crash", "refused"}, exec : ExecOutcomes, ps : ExecOutcomes]

\* startMongoContainer: the exit code of `docker run` is not read; the
\* container counts as started when the output of `docker ps --filter
\* name=<name>` contains the name
startMongoContainer(cs, vols, containerName, p, volumeName, e) ==
  LET ran == dockerRun(cs, vols, containerName, p, volumeName, e.run)
  IN [containers |-> ran.containers, volumes |-> ran.volumes,
      throws |-> \/ e.exec = "reject"
                 \/ e.ps = "reject"
                 \/ dockerPsNames(ran.containers, containerName) = {},
      issued |-> {"container-start"}]

\* times of waitForMongoReady are in eighths of a millisecond, the unit in
\* which the delays 500 ms * 1.5^n below the cap are whole numbers
Ms(n) == 8 * n

WAIT_TIMEOUT == Ms(30000)

WAIT_FIRST_DELAY == Ms(500)

WAIT_MAX_DELAY == Ms(5000)

\* what the environment decides during one wait: `ready` is the poll from
\* which mongod answers the ping (0: never), `stop` the poll from which the
\* container is no longer running (0: it keeps its status)
WaitEnvs == [ready : {0, 1, 3}, stop : {0, 1, 2}]

\* the containers as poll `i` finds them
WaitContainers(cs, containerName, e, i) ==
  IF e.stop # 0 /\ i >= e.stop /\ cs[containerName].status = "running"
  THEN [cs EXCEPT ![containerName].status = "stopped"]
  ELSE cs

\* the polls of waitForMongoReady from poll `i` on, `elapsed` being the sum of
\* the delays slept so far (the commands themselves take no time here). A poll
\* whose `docker ps` output lacks the name throws inside the try block, the
\* catch block swallows it like every other error, and the loop sleeps and
\* polls again. `seen` is the first poll that found the name missing (0: none).
RECURSIVE WaitPoll(_, _, _, _, _, _, _)
WaitPoll(cs, containerName, e, i, elapsed, delay, seen) ==
  LET now == WaitContainers(cs, containerName, e, i)
      listed == dockerPsNames(now, containerName) # {}
      answers == now[containerName].status = "running" /\ e.ready # 0 /\ i >= e.ready
  IN IF elapsed >= WAIT_TIMEOUT
     THEN [throws |-> TRUE, error |-> "ready-timeout", polls |-> i - 1, seen |-> seen,
           elapsed |-> elapsed, containers |-> WaitContainers(cs, containerName, e, i - 1)]
     ELSE IF listed /\ answers
     THEN [throws |-> FALSE, error |-> "none", polls |-> i, seen |-> seen,
           elapsed |-> elapsed, containers |-> now]
     ELSE WaitPoll(cs, containerName, e, i + 1, elapsed + delay,
                   IF (delay * 3) \div 2 < WAIT_MAX_DELAY THEN (delay * 3) \div 2
                   ELSE WAIT_MAX_DELAY,
                   IF seen = 0 /\ ~listed THEN i ELSE seen)

waitForMongoReady(cs, containerName, e) ==
  WaitPoll(cs, containerName, e, 1, 0, WAIT_FIRST_DELAY, 0)

(***************************************************************************)
(* provision/user-creation.ts createAppUser                                *)
(***************************************************************************)
\* the outcome of the mongosh command: it prints "User created successfully"
\* or "User already exists", exits 0 with another output, exits non-zero, or
\* the exec rejects
UserOutcomes == {"printed", "other-output", "nonzero", "reject"}

createAppUser(cs, us, containerName, x) ==
  LET up == cs[containerName].status = "running"
  IN IF x = "reject" \/ x = "nonzero" \/ ~up
     THEN [users |-> us, throws |-> TRUE, issued |-> {"user-create"}]
     ELSE [users |-> IF x = "printed" THEN us \cup {containerName} ELSE us,
           throws |-> FALSE, issued |-> {"user-create"}]

(***************************************************************************)
(* provision/uri-builder.ts                                                *)
(***************************************************************************)
\* encodeURIComponent on the passwords of the model: '#' and '$' are escaped
encodeURIComponent(str) ==
  IF str = "Ap#1" THEN "Ap%231"
  ELSE IF str = "Ap$2" THEN "Ap%242"
  ELSE IF str = "Rt#1" THEN "Rt%231"
  ELSE IF str = "Rt$2" THEN "Rt%242"
  ELSE str

buildConnectionURI(metadata, vpsHost) ==
  "mongodb://" \o metadata.username \o ":" \o encodeURIComponent(metadata.password)
    \o "@" \o vpsHost \o ":" \o ToString(metadata.port) \o "/" \o metadata.dbName
    \o "?authSource=admin"

(***************************************************************************)
(* Instance records (state/schema.ts InstanceMetadata).                    *)
(***************************************************************************)
\* provision/credentials.ts generateMongoDBCredentials: two random passwords
CredentialSets ==
  {[rootPassword |-> "Rt#1", appPassword |-> "Ap#1"],
   [rootPassword |-> "Rt$2", appPassword |-> "Ap$2"]}

\* orchestrator.ts, step 11: the metadata of a run
InstanceMetadata(project, env, port, credentials, createdAt) ==
  [port |-> port,
   dbName |-> project \o "_" \o env,
   username |-> "dbx_" \o env,
   password |-> credentials.appPassword,
   rootPassword |-> credentials.rootPassword,
   volume |-> ResourceName(project, env),
   containerName |-> ResourceName(project, env),
   createdAt |-> createdAt]

Timestamp(n) == "2025-01-0" \o ToString(n) \o "T00:00:00.000Z"

Cred1 == [rootPassword |-> "Rt#1", appPassword |-> "Ap#1"]

Cred2 == [rootPassword |-> "Rt$2", appPassword |-> "Ap$2"]

\* the record an earlier run for `env` wrote
EarlierRecord(env) == InstanceMetadata(Project, env, BasePort, Cred1, Timestamp(0))

\* records for `env` that differ from EarlierRecord(env) in exactly one field
DivergentRecords(env) ==
  {[EarlierRecord(env) EXCEPT !.port = BasePort + 1],
   [EarlierRecord(env) EXCEPT !.containerName = OtherName],
   [EarlierRecord(env) EXCEPT !.dbName = "app_old"],
   [EarlierRecord(env) EXCEPT !.password = Cred2.appPassword]}

\* the port an initially running container of the host is bound to
InitPortOf(name) ==
  IF name = ResourceName(Project, "dev") THEN BasePort
  ELSE IF name = ResourceName(Project, "dev2") THEN BasePort + 1
  ELSE BasePort + 2

InitContainers ==
  {[n \in Names |-> IF n \in up THEN [status |-> "running", port |-> InitPortOf(n)]
                    ELSE NoContainer] : up \in SUBSET Names}

NoRecon == [called |-> FALSE]

\* the record kept of a reconcile call: the key, both copies before, the outcome
ReconRecord(key, loc0, file0, out) ==
  [called |-> TRUE, key |-> key, local0 |-> loc0, remote0 |-> file0, out |-> out]

PaIdle ==
  /\ paLocal = createEmptyState(PaKeys)
  /\ paRemote = createEmptyState(PaKeys)
  /\ paBase = BasePort
  /\ paResult = NoResult

(***************************************************************************)
(* provision/orchestrator.ts provisionInstance, one action per step.       *)
(***************************************************************************)
\* how many provisionInstance runs one behaviour makes
MaxRuns == 2

\* mutant: the state files are written before the user is created
StepOrder_StateBeforeUser ==
  <<"connect", "reconcile", "docker", "allocate", "volume", "image", "container",
    "ready", "local", "remote", "user">>

\* mutant: the state files are written once the container has been started
StepOrder_StateBeforeReady ==
  <<"connect", "reconcile", "docker", "allocate", "volume", "image", "container",
    "local", "remote", "ready", "user">>

\* the steps of provisionInstance after the configuration is loaded, in the
\* order of the code
StepOrder ==
  <<"connect", "reconcile", "docker", "allocate", "volume", "image", "container",
    "ready", "user", "local", "remote">>

\* the step the run goes to when the call of `step` has returned
NextStep(step) ==
  LET i == CHOOSE j \in 1..Len(StepOrder) : StepOrder[j] = step
  IN IF i = Len(StepOrder) THEN "idle" ELSE StepOrder[i + 1]

NoCreds == [rootPassword |-> "", appPassword |-> ""]

NoOutcome == [kind |-> "none", isNew |-> FALSE, connectionURI |-> "", error |-> "none",
              step |-> "none"]

\* the ProvisionResult of a new instance (orchestrator.ts 252-256)
NewInstance(uri) ==
  [kind |-> "new", isNew |-> TRUE, connectionURI |-> uri, error |-> "none", step |-> "none"]

\* the ProvisionResult made of an InstanceExistsError (orchestrator.ts 259-266)
AlreadyExists(uri) ==
  [kind |-> "exists", isNew |-> FALSE, connectionURI |-> uri, error |-> "none",
   step |-> "none"]

\* an error rethrown to the caller; `step` is ProvisioningError.step, or the
\* step of the run for the other error classes
Thrown(error, step) ==
  [kind |-> "error", isNew |-> FALSE, connectionURI |-> "", error |-> error, step |-> step]

\* errors.ts StateSyncError: the step is `${stateType}-state-sync`
StateSyncError(stateType) == Thrown("StateSyncError", stateType \o "-state-sync")

RunKey == createInstanceKey(Project, runEnv)

RunName == ResourceName(Project, runEnv)

\* orchestrator.ts 198-207
RunMetadata == InstanceMetadata(Project, runEnv, allocPort, creds, Timestamp(nruns))

\* the run leaves through the catch block of provisionInstance: the error is
\* rethrown and the session is left as it is
Fail(outcome) ==
  /\ pc' = "idle"
  /\ result' = outcome
  /\ UNCHANGED <<runEnv, sess, allocPort, creds, nruns, provisioned, second>>

\* the call of step `pc` has returned
Advance ==
  /\ pc' = NextStep(pc)
  /\ steps' = steps \cup {pc}
  /\ UNCHANGED <<runEnv, nruns, second>>

Larger(a, b) == IF a >= b THEN a ELSE b

\* the sessions a client holds: one if it is connected
OpenSessions(connected) == IF connected THEN 1 ELSE 0

\* `up <env>`: a new run, step 1 (the configuration is loaded)
ProvStart(env) ==
  /\ pc = "idle"
  /\ nruns < MaxRuns
  /\ pc' = StepOrder[1]
  /\ runEnv' = env
  /\ sess' = FALSE
  /\ allocPort' = 0
  /\ creds' = NoCreds
  /\ reconMeta' = NoRec
  /\ steps' = {}
  /\ cmds' = {}
  /\ result' = NoOutcome
  /\ nruns' = nruns + 1
  /\ second' = (createInstanceKey(Project, env) \in provisioned)
  /\ sessions' = 0
  /\ UNCHANGED <<auxVars, paVars, storeVars, hostVars, reconVars, provisioned>>

\* step 2: sshClient.connect()
ProvConnect ==
  /\ pc = "connect"
  /\ \E c \in {"ok", "SSHConnectionError", "SSHAuthenticationError"} :
       IF c = "ok"
       THEN /\ sess' = TRUE
            /\ sessions' = Larger(sessions, 1)
            /\ Advance
            /\ UNCHANGED <<allocPort, creds, result, provisioned>>
       ELSE /\ Fail(Thrown(c, "connect"))
            /\ UNCHANGED <<steps, sessions>>
  /\ UNCHANGED <<auxVars, paVars, storeVars, hostVars, reconVars, reconMeta, cmds>>

\* step 2: reconcileInstanceState; a record ends the run as 'already exists'
ProvReconcile ==
  /\ pc = "reconcile"
  /\ \E e \in ReconEnvs :
       LET out == reconcileInstanceState(local, remoteDir, remote, containers,
                                         Project, runEnv, e)
       IN /\ local' = out.local
          /\ remote' = out.remote
          /\ remoteDir' = out.remoteDir
          /\ IF out.throws
             THEN /\ Fail(Thrown("StateValidationError", "reconcile"))
                  /\ UNCHANGED <<steps, reconMeta>>
             ELSE /\ reconMeta' = out.metadata
                  /\ IF out.metadata # NoRec
                     THEN /\ sess' = FALSE
                          /\ pc' = "idle"
                          /\ steps' = steps \cup {pc}
                          /\ result' = AlreadyExists(buildConnectionURI(out.metadata, VpsHost))
                          /\ UNCHANGED <<runEnv, allocPort, creds, nruns, provisioned, second>>
                     ELSE /\ Advance
                          /\ UNCHANGED <<sess, allocPort, creds, result, provisioned>>
  /\ UNCHANGED <<sessions, auxVars, paVars, hostVars, reconVars, cmds>>

\* step 3: ensureDockerReady on a client of its own, while sshClient is as
\* step 2 left it; then sshClient.connect(), which returns at once on a
\* connected client
ProvDocker ==
  /\ pc = "docker"
  /\ \E e \in DockerEnvs :
       LET out == ensureDockerReady(docker, e)
       IN /\ docker' = out.docker
          /\ sessions' = Larger(sessions, OpenSessions(sess) + OpenSessions(e.connect = "ok"))
          /\ IF out.throws
             THEN /\ Fail(Thrown(out.error, "docker"))
                  /\ UNCHANGED steps
             ELSE /\ Advance
                  /\ UNCHANGED <<sess, allocPort, creds, result, provisioned>>
  /\ UNCHANGED <<auxVars, paVars, storeVars, reconVars, containers, volumes, image, users,
                 reconMeta, cmds>>

\* steps 4 and 5: both collections are read, a port allocated, credentials generated
ProvAllocate ==
  /\ pc = "allocate"
  /\ \E r \in ExecOutcomes, c \in CredentialSets :
       LET rd == readRemoteState(remote, r)
           found == findNextPort(readState(local), BasePort, rd.state)
       IN IF rd.throws
          THEN /\ Fail(Thrown("StateValidationError", "allocate"))
               /\ UNCHANGED steps
          ELSE IF found.throws
          THEN /\ Fail(Thrown("PortAllocationError", "allocate"))
               /\ UNCHANGED steps
          ELSE /\ allocPort' = found.port
               /\ creds' = c
               /\ Advance
               /\ UNCHANGED <<sess, result, provisioned>>
  /\ UNCHANGED <<sessions, auxVars, paVars, storeVars, hostVars, reconVars, reconMeta, cmds>>

\* step 6: createVolume
ProvVolume ==
  /\ pc = "volume"
  /\ \E e \in CreateVolumeEnvs :
       LET out == createVolume(volumes, RunName, e)
       IN /\ volumes' = out.volumes
          /\ cmds' = cmds \cup out.issued
          /\ IF out.throws
             THEN /\ Fail(Thrown("VolumeCreationError", "volume-creation"))
                  /\ UNCHANGED steps
             ELSE /\ Advance
                  /\ UNCHANGED <<sess, allocPort, creds, result, provisioned>>
  /\ UNCHANGED <<sessions, auxVars, paVars, storeVars, reconVars, containers, docker, image, users, reconMeta>>

\* step 7: pullMongoImage
ProvImage ==
  /\ pc = "image"
  /\ \E e \in PullImageEnvs :
       LET out == pullMongoImage(image, e)
       IN /\ image' = out.image
          /\ cmds' = cmds \cup out.issued
          /\ IF out.throws
             THEN /\ Fail(Thrown("ProvisioningError", "image-pull"))
                  /\ UNCHANGED steps
             ELSE /\ Advance
                  /\ UNCHANGED <<sess, allocPort, creds, result, provisioned>>
  /\ UNCHANGED <<sessions, auxVars, paVars, storeVars, reconVars, containers, docker, volumes, users, reconMeta>>

\* step 8: startMongoContainer
ProvContainer ==
  /\ pc = "container"
  /\ \E e \in StartContainerEnvs :
       LET out == startMongoContainer(containers, volumes, RunName, allocPort, RunName, e)
       IN /\ containers' = out.containers
          /\ volumes' = out.volumes
          /\ cmds' = cmds \cup out.issued
          /\ IF out.throws
             THEN /\ Fail(Thrown("ContainerStartError", "container-start"))
                  /\ UNCHANGED steps
             ELSE /\ Advance
                  /\ UNCHANGED <<sess, allocPort, creds, result, provisioned>>
  /\ UNCHANGED <<sessions, auxVars, paVars, storeVars, reconVars, docker, image, users, reconMeta>>

\* step 9: waitForMongoReady
ProvReady ==
  /\ pc = "ready"
  /\ \E e \in WaitEnvs :
       LET out == waitForMongoReady(containers, RunName, e)
       IN /\ containers' = out.containers
          /\ IF out.throws
             THEN /\ Fail(Thrown("ProvisioningError", "mongodb-ready"))
                  /\ UNCHANGED steps
             ELSE /\ Advance
                  /\ UNCHANGED <<sess, allocPort, creds, result, provisioned>>
  /\ UNCHANGED <<sessions, auxVars, paVars, storeVars, reconVars, docker, volumes, image, users,
                 reconMeta, cmds>>

\* step 10: createAppUser
ProvUser ==
  /\ pc = "user"
  /\ \E x \in UserOutcomes :
       LET out == createAppUser(containers, users, RunName, x)
       IN /\ users' = out.users
          /\ cmds' = cmds \cup out.issued
          /\ IF out.throws
             THEN /\ Fail(Thrown("UserCreationError", "user-creation"))
                  /\ UNCHANGED steps
             ELSE /\ Advance
                  /\ UNCHANGED <<sess, allocPort, creds, result, provisioned>>
  /\ UNCHANGED <<sessions, auxVars, paVars, storeVars, reconVars, containers, docker, volumes, image, reconMeta>>

\* step 11, first half: setInstance writes the record into local state
ProvLocal ==
  /\ pc = "local"
  /\ \E w \in LocalWrites :
       LET out == setInstance(local, RunKey, RunMetadata, w)
       IN /\ local' = out.local
          /\ IF out.throws
             THEN /\ Fail(StateSyncError("local"))
                  /\ UNCHANGED steps
             ELSE /\ Advance
                  /\ UNCHANGED <<sess, allocPort, creds, result, provisioned>>
  /\ UNCHANGED <<sessions, auxVars, paVars, remote, remoteDir, hostVars, reconVars, reconMeta, cmds>>

\* the catch block of the remote write (orchestrator.ts 223-238): it reads the
\* local state, deletes the key from the object read and writes nothing back
RollbackLocalState(loc, key) == loc

\* step 11, second half: the remote collection is read, the record added and
\* the collection written; then the URI is built and the session closed
ProvRemote ==
  /\ pc = "remote"
  /\ \E r \in ExecOutcomes, e \in EnsureOutcomes, b \in BodyOutcomes :
       LET rd == readRemoteState(remote, r)
           wr == writeRemoteState(remoteDir, remote,
                                  [rd.state EXCEPT ![RunKey] = RunMetadata], e, b)
       IN IF rd.throws
          THEN /\ local' = RollbackLocalState(local, RunKey)
               /\ Fail(StateSyncError("remote"))
               /\ UNCHANGED <<steps, remote, remoteDir>>
          ELSE /\ remote' = wr.file
               /\ remoteDir' = wr.dir
               /\ IF wr.throws
                  THEN /\ local' = RollbackLocalState(local, RunKey)
                       /\ Fail(StateSyncError("remote"))
                       /\ UNCHANGED steps
                  ELSE /\ sess' = FALSE
                       /\ result' = NewInstance(buildConnectionURI(RunMetadata, VpsHost))
                       /\ provisioned' = provisioned \cup {RunKey}
                       /\ Advance
                       /\ UNCHANGED <<local, allocPort, creds>>
  /\ UNCHANGED <<sessions, auxVars, paVars, hostVars, reconVars, reconMeta, cmds>>

\* a running container stops (mongod exits, the container is stopped by hand)
ContainerStops(name) ==
  /\ containers[name].status = "running"
  /\ containers' = [containers EXCEPT ![name].status = "stopped"]
  /\ UNCHANGED <<sessions, auxVars, paVars, storeVars, reconVars, docker, volumes, image, users, runVars>>

\* the host and the project before the first run: nothing provisioned, with
\* or without docker and a writable /var/lib/dbx, or an instance for "dev"
\* provisioned from another checkout of the project
FreshHost ==
  /\ local = createEmptyState(Keys)
  /\ remote = createEmptyState(Keys)
  /\ remoteDir \in BOOLEAN
  /\ docker \in {"absent", "stopped", "running"}
  /\ containers = [n \in Names |-> NoContainer]
  /\ volumes = {}
  /\ image = FALSE
  /\ users = {}

ForeignInstance ==
  LET name == ResourceName(Project, "dev")
  IN /\ local = createEmptyState(Keys)
     /\ remote = [createEmptyState(Keys) EXCEPT
                    ![createInstanceKey(Project, "dev")] = EarlierRecord("dev")]
     /\ remoteDir = TRUE
     /\ docker = "running"
     /\ containers = [[n \in Names |-> NoContainer] EXCEPT
                        ![name] = [status |-> "running", port |-> BasePort]]
     /\ volumes = {name}
     /\ image = TRUE
     /\ users = {name}

RunIdle ==
  /\ pc = "idle"
  /\ runEnv = "dev"
  /\ sess = FALSE
  /\ allocPort = 0
  /\ creds = NoCreds
  /\ reconMeta = NoRec
  /\ steps = {}
  /\ cmds = {}
  /\ result = NoOutcome
  /\ nruns = 0
  /\ provisioned = {}
  /\ second = FALSE
  /\ sessions = 0

HostIdle ==
  /\ docker = "running"
  /\ volumes = {}
  /\ image = FALSE
  /\ users = {}

Init ==
  /\ AuxIdle
  /\ PaIdle
  /\ FreshHost \/ ForeignInstance
  /\ rec = NoRecon
  /\ nrec = 0
  /\ RunIdle

Next ==
  \/ \E env \in Envs : ProvStart(env)
  \/ ProvConnect
  \/ ProvReconcile
  \/ ProvDocker
  \/ ProvAllocate
  \/ ProvVolume
  \/ ProvImage
  \/ ProvContainer
  \/ ProvReady
  \/ ProvUser
  \/ ProvLocal
  \/ ProvRemote
  \/ \E name \in Names : ContainerStops(name)

Spec == Init /\ [][Next]_vars

(***************************************************************************)
(* Properties of provisionInstance.                                        *)
(***************************************************************************)
CreationCommands == {"volume-create", "image-pull", "container-start", "user-create"}

\* the run has got past step 2: reconciliation returned no record
PastReconcile == "reconcile" \in steps /\ reconMeta = NoRec

RunEnded == pc = "idle" /\ result.kind # "none"

\* C8 (as claimed): a run for a key that an earlier run provisioned, with no
\* destroy in between, issues no volume-create, image-pull, container-start or
\* user-creation command, does not get past step 2 and, unless the connection
\* or the reading of the state fails, ends as 'already exists' (isNew=false)
\* with the connection URI of the existing record.
C8_SecondRunAlreadyExists ==
  second =>
    /\ cmds \cap CreationCommands = {}
    /\ ~PastReconcile
    /\ (RunEnded /\ result.kind # "error") =>
         /\ reconMeta # NoRec
         /\ result = AlreadyExists(buildConnectionURI(reconMeta, VpsHost))

ResourceSteps == {"volume", "image", "container", "ready", "user"}

\* C11: a step 6-10 that throws removes no volume, image, container or user,
\* leaves local and remote state as they were, and at that moment neither
\* holds a record for the key of the run.
C11_NoRollbackOnStepFailure ==
  [][(pc \in ResourceSteps /\ pc' = "idle" /\ result'.kind = "error") =>
       /\ volumes \subseteq volumes'
       /\ image => image'
       /\ users \subseteq users'
       /\ \A n \in Names : containers[n].status # "none" => containers'[n].status # "none"
       /\ cmds' \subseteq CreationCommands
       /\ local' = local /\ remote' = remote
       /\ local'[RunKey] = NoRec /\ remote'[RunKey] = NoRec]_vars

\* C11 witness: user creation threw; the volume and the container of the run
\* are there and no state holds a record
C11_Witness ==
  /\ RunEnded /\ result = Thrown("UserCreationError", "user-creation")
  /\ RunName \in volumes
  /\ containers[RunName].status = "running"
  /\ local[RunKey] = NoRec /\ remote[RunKey] = NoRec

\* a run that throws once the local write has returned throws StateSyncError
\* for 'remote' at step 'remote-state-sync'; the record stays in local state
\* and the container and the volume are still there
ThrownRemoteWriteReported ==
  (RunEnded /\ result.kind = "error" /\ "local" \in steps) =>
    /\ result = StateSyncError("remote")
    /\ result.step = "remote-state-sync"
    /\ local[RunKey] = RunMetadata
    /\ RunName \in volumes
    /\ containers[RunName].status # "none"

\* a record returned by the reconciliation of step 2 ends the run as 'already
\* exists' with the URI of that record, before any creation command
ReconciledRecordEndsRun ==
  (reconMeta # NoRec /\ "reconcile" \in steps) =>
    /\ pc = "idle"
    /\ ~sess
    /\ cmds = {}
    /\ result = AlreadyExists(buildConnectionURI(reconMeta, VpsHost))

\* C10 (as claimed): whenever a run ends after its local write returned and
\* the remote state file does not hold the record, the run has failed with
\* StateSyncError for 'remote' (step 'remote-state-sync'), the record is in
\* local state, and the container and the volume are still there.
C10_RemoteWriteFailureReported ==
  (RunEnded /\ "local" \in steps /\ remote[RunKey] # RunMetadata) =>
    /\ result = StateSyncError("remote")
    /\ result.step = "remote-state-sync"
    /\ local[RunKey] = RunMetadata
    /\ RunName \in volumes
    /\ containers[RunName].status # "none"

(***************************************************************************)
(* SpecRecon: reconcileInstanceState called on divergent state copies.     *)
(***************************************************************************)
\* how many reconcile calls one behaviour of SpecRecon makes
MaxRecon == 2

ReconInit ==
  /\ AuxIdle
  /\ PaIdle
  /\ local \in [Keys -> {NoRec} \cup UNION {{EarlierRecord(e)} \cup DivergentRecords(e) : e \in Envs}]
  /\ remote \in [Keys -> {NoRec} \cup UNION {{EarlierRecord(e)} \cup DivergentRecords(e) : e \in Envs}]
  /\ \A e \in Envs :
       LET k == createInstanceKey(Project, e)
       IN /\ local[k] \in {NoRec, EarlierRecord(e)} \cup DivergentRecords(e)
          /\ remote[k] \in {NoRec, EarlierRecord(e)} \cup DivergentRecords(e)
          /\ e # "dev" => (local[k] \in {NoRec, EarlierRecord(e)}
                            /\ remote[k] \in {NoRec, EarlierRecord(e)})
  /\ remoteDir \in BOOLEAN
  /\ (Present(remote) # {} => remoteDir)
  /\ containers \in InitContainers
  /\ HostIdle
  /\ RunIdle
  /\ rec = NoRecon
  /\ nrec = 0

ReconCall(env) ==
  /\ nrec < MaxRecon
  /\ \E e \in ReconEnvs :
       LET out == reconcileInstanceState(local, remoteDir, remote, containers, Project, env, e)
       IN /\ local' = out.local
          /\ remote' = out.remote
          /\ remoteDir' = out.remoteDir
          /\ rec' = ReconRecord(createInstanceKey(Project, env), local, remote, out)
  /\ nrec' = nrec + 1
  /\ UNCHANGED <<auxVars, paVars, hostVars, runVars>>

ReconNext == \E env \in Envs : ReconCall(env)

SpecRecon == ReconInit /\ [][ReconNext]_vars

(***************************************************************************)
(* Properties of reconcileInstanceState, on the record of the last call.   *)
(***************************************************************************)
RecLocal0 == rec.local0[rec.key]

RecRemote0 == rec.remote0[rec.key]

RecReturned == rec.called /\ ~rec.out.throws

\* the three fields the resolution policy compares
DifferOnComparedFields(a, b) ==
  a.port # b.port \/ a.containerName # b.containerName \/ a.dbName # b.dbName

\* C3: remote holds a record for the key and local does not: the call writes
\* that identical record into local state under the key, leaves remote state
\* unchanged and returns reconciled=true, 'copied-remote-to-local' and the record.
C3_AdoptRemote ==
  (rec.called /\ RecRemote0 # NoRec /\ RecLocal0 = NoRec) =>
    /\ rec.out.remote = rec.remote0
    /\ "remote" \notin rec.out.writes
    /\ ~rec.out.throws =>
         /\ rec.out.local = [rec.local0 EXCEPT ![rec.key] = RecRemote0]
         /\ rec.out.reconciled
         /\ rec.out.action = "copied-remote-to-local"
         /\ rec.out.metadata = RecRemote0

\* C3 witness: a remote-only record was adopted while local held another key
C3_Witness ==
  /\ RecReturned /\ RecRemote0 # NoRec /\ RecLocal0 = NoRec
  /\ Present(rec.local0) # {}
  /\ local[rec.key] = RecRemote0
  /\ rec.out.action = "copied-remote-to-local"

\* C4: local holds a record, remote does not, and the probe of the container
\* named by the local record answers not running: the key is removed from
\* local state, nothing is written to remote state and no record is returned.
C4_RemoveStaleLocal ==
  (rec.called /\ RecLocal0 # NoRec /\ RecRemote0 = NoRec /\ rec.out.probe = "not-running") =>
    /\ rec.out.remote = rec.remote0
    /\ "remote" \notin rec.out.writes
    /\ ~rec.out.throws =>
         /\ rec.out.local = [rec.local0 EXCEPT ![rec.key] = NoRec]
         /\ rec.out.metadata = NoRec

\* C4 witness: a stale local record was removed while local held another key
C4_Witness ==
  /\ RecReturned /\ RecLocal0 # NoRec /\ RecRemote0 = NoRec
  /\ rec.out.probe = "not-running"
  /\ Present(rec.local0) # {rec.key}
  /\ local[rec.key] = NoRec
  /\ Present(local) # {}

\* C5 (as claimed): local holds a record, remote does not, and the probe answers
\* running: the local record is written into remote state under the key, local
\* state is unchanged and the record is returned with reconciled=true.
C5_RecreateRemote ==
  (RecReturned /\ RecLocal0 # NoRec /\ RecRemote0 = NoRec /\ rec.out.probe = "running") =>
    /\ rec.out.remote = [rec.remote0 EXCEPT ![rec.key] = RecLocal0]
    /\ rec.out.local = rec.local0
    /\ rec.out.reconciled
    /\ rec.out.metadata = RecLocal0

\* C6: both copies hold a record and the records differ in port, containerName
\* or dbName: the local record is replaced by the remote one, remote state is
\* unchanged and the action is 'resolved-conflict-from-remote'.
C6_RemoteWinsConflict ==
  (rec.called /\ RecLocal0 # NoRec /\ RecRemote0 # NoRec
     /\ DifferOnComparedFields(RecLocal0, RecRemote0)) =>
    /\ rec.out.remote = rec.remote0
    /\ "remote" \notin rec.out.writes
    /\ ~rec.out.throws =>
         /\ rec.out.local = [rec.local0 EXCEPT ![rec.key] = RecRemote0]
         /\ rec.out.reconciled
         /\ rec.out.action = "resolved-conflict-from-remote"
         /\ rec.out.metadata = RecRemote0

\* C6 witness: the copies differed in dbName only and local took the remote record
C6_Witness ==
  /\ RecReturned /\ RecLocal0 # NoRec /\ RecRemote0 # NoRec
  /\ RecLocal0.dbName # RecRemote0.dbName
  /\ RecLocal0.port = RecRemote0.port
  /\ RecLocal0.containerName = RecRemote0.containerName
  /\ local[rec.key] = RecRemote0
  /\ rec.out.action = "resolved-conflict-from-remote"

\* C7: when both copies hold a record agreeing on port, containerName and
\* dbName, and when neither holds one, the call starts no write on either
\* copy and returns reconciled=false.
C7_NoActionWhenAgreeing ==
  (rec.called /\ (\/ (RecLocal0 = NoRec /\ RecRemote0 = NoRec)
                  \/ (RecLocal0 # NoRec /\ RecRemote0 # NoRec
                        /\ ~DifferOnComparedFields(RecLocal0, RecRemote0)))) =>
    /\ rec.out.writes = {}
    /\ rec.out.local = rec.local0
    /\ rec.out.remote = rec.remote0
    /\ ~rec.out.throws => ~rec.out.reconciled

\* C7 witness: the copies agreed on the three fields but not on the password
C7_Witness ==
  /\ RecReturned /\ RecLocal0 # NoRec /\ RecRemote0 # NoRec
  /\ ~DifferOnComparedFields(RecLocal0, RecRemote0)
  /\ RecLocal0 # RecRemote0
  /\ ~rec.out.reconciled
  /\ local = rec.local0 /\ remote = rec.remote0

(***************************************************************************)
(* SpecPort: findNextPort applied to bounded inputs.                       *)
(***************************************************************************)
\* the ports the input collections may record
PaPorts == {MIN_PORT, MIN_PORT + 1} \cup ((MAX_PORT - PortWindow)..MAX_PORT)

\* base ports: invalid ones on both sides, the low end and the high end
PaBasePorts == {MIN_PORT - 1, MIN_PORT, MAX_PORT + 1} \cup ((MAX_PORT - PortWindow)..MAX_PORT)

PaRecord(p) == [port |-> p]

PaCollections == [PaKeys -> {NoRec} \cup {PaRecord(p) : p \in PaPorts}]

PaInit ==
  /\ AuxIdle
  /\ local = createEmptyState(Keys)
  /\ remote = createEmptyState(Keys)
  /\ remoteDir = FALSE
  /\ containers = [n \in Names |-> NoContainer]
  /\ HostIdle
  /\ RunIdle
  /\ rec = NoRecon
  /\ nrec = 0
  /\ paLocal \in PaCollections
  /\ paRemote \in PaCollections
  /\ paBase \in PaBasePorts
  /\ paResult = NoResult

PaAllocate ==
  /\ paResult = NoResult
  /\ paResult' = findNextPort(paLocal, paBase, paRemote)
  /\ UNCHANGED <<auxVars, paLocal, paRemote, paBase, storeVars, hostVars, reconVars, runVars>>

PaNext == PaAllocate

SpecPort == PaInit /\ [][PaNext]_vars

\* the ports recorded in either input collection
PaUsed ==
  {p \in PaPorts : \E k \in PaKeys :
     \/ (paLocal[k] # NoRec /\ paLocal[k].port = p)
     \/ (paRemote[k] # NoRec /\ paRemote[k].port = p)}

PaValidBase == paBase >= MIN_PORT /\ paBase <= MAX_PORT

\* C1: for a valid basePort, findNextPort returns the smallest port p with
\* basePort <= p <= 65535 recorded in neither collection: basePort when it is
\* unrecorded, B+k+1 when exactly [B, B+k] is recorded.
C1_SmallestFreePort ==
  (paResult # NoResult /\ PaValidBase /\ \E p \in paBase..MAX_PORT : p \notin PaUsed) =>
    /\ ~paResult.throws
    /\ paResult.port \in paBase..MAX_PORT
    /\ paResult.port \notin PaUsed
    /\ \A q \in paBase..(paResult.port - 1) : q \in PaUsed
    /\ (paBase \notin PaUsed => paResult.port = paBase)
    /\ \A k \in 0..(PortWindow + 1) :
         ((paBase + k + 1 <= MAX_PORT) /\ (paBase..(paBase + k)) \subseteq PaUsed
            /\ (paBase + k + 1) \notin PaUsed) => paResult.port = paBase + k + 1

\* C1 witness: a run of recorded ports [B, B+1] was skipped and B+2 returned
C1_Witness ==
  /\ paResult # NoResult /\ PaValidBase
  /\ {paBase, paBase + 1} \subseteq PaUsed
  /\ ~paResult.throws /\ paResult.port = paBase + 2

\* C2: for a valid basePort, findNextPort throws PortAllocationError if and
\* only if every port in [basePort, 65535] is recorded in one of the collections.
C2_ThrowsIffExhausted ==
  (paResult # NoResult /\ PaValidBase) =>
    (paResult.throws <=> (paBase..MAX_PORT) \subseteq PaUsed)

\* C2 witness: every port from basePort to 65535 is recorded and the call threw
C2_Witness ==
  /\ paResult # NoResult /\ PaValidBase
  /\ paBase < MAX_PORT
  /\ (paBase..MAX_PORT) \subseteq PaUsed
  /\ paResult.throws

(***************************************************************************)
(* SpecWait: waitForMongoReady called on hosts with and without the        *)
(* container running.                                                      *)
(***************************************************************************)
\* how many waitForMongoReady calls one behaviour of SpecWait makes
MaxWait == 2

WaitRecord(containerName, cs0, e, out) ==
  [called |-> TRUE, containerName |-> containerName, containers0 |-> cs0, env |-> e,
   out |-> out]

WaitInit ==
  /\ PaIdle
  /\ local = createEmptyState(Keys)
  /\ remote = createEmptyState(Keys)
  /\ remoteDir = FALSE
  /\ containers \in InitContainers
  /\ HostIdle
  /\ RunIdle
  /\ rec = NoRecon
  /\ nrec = 0
  /\ WaitIdle
  /\ RetryIdle
  /\ StoreIdle
  /\ UnitIdle

WaitCall(containerName) ==
  /\ nwait < MaxWait
  /\ \E e \in WaitEnvs :
       LET out == waitForMongoReady(containers, containerName, e)
       IN /\ containers' = out.containers
          /\ wrec' = WaitRecord(containerName, containers, e, out)
  /\ nwait' = nwait + 1
  /\ UNCHANGED <<paVars, storeVars, reconVars, docker, volumes, image, users, runVars, rt,
                 fileVars, unitVars>>

WaitNext == \E containerName \in Names : WaitCall(containerName)

SpecWait == WaitInit /\ [][WaitNext]_vars

\* C12 (as claimed): a wait on a container that was running, in which a poll
\* found it missing from the `docker ps` output, has thrown the
\* container-crashed error, at that very poll, before the overall timeout has
\* elapsed.
C12_CrashFailsAtOnce ==
  (/\ wrec.called
   /\ wrec.containers0[wrec.containerName].status = "running"
   /\ wrec.out.seen # 0) =>
    /\ wrec.out.throws
    /\ wrec.out.error = "container-crashed"
    /\ wrec.out.polls = wrec.out.seen
    /\ wrec.out.elapsed < WAIT_TIMEOUT

(***************************************************************************)
(* ssh/client.ts execWithRetry: one action per iteration of its loop.      *)
(***************************************************************************)
\* the largest maxRetries argument of the model
RetryLimit == 3

\* execWithRetry: const delays = [1000, 2000, 4000]
delays == <<1000, 2000, 4000>>

\* how an attempt (connect, then exec) ends: exec resolves, whatever the exit
\* code; connect rejects (host unreachable; authentication refused; the key
\* file unreadable, before a Client is made); exec rejects with the timeout
\* error or with SSHError (channel or stream error)
AttemptOutcomes ==
  {"resolved", "SSHConnectionError", "SSHAuthenticationError", "key-unreadable",
   "SSHTimeoutError", "SSHError"}

\* the class of the error an attempt throws
ErrorClass(o) == IF o = "key-unreadable" THEN "SSHAuthenticationError" ELSE o

\* new SSHClient(config)
NewSSHClient == [client |-> FALSE, connected |-> FALSE]

\* SSHClient.connect: this.client is set once the key has been read and
\* this.connected on 'ready'
connect(c, o) ==
  IF o = "key-unreadable" THEN c
  ELSE [client |-> TRUE,
        connected |-> o \notin {"SSHConnectionError", "SSHAuthenticationError"}]

\* SSHClient.disconnect
disconnect(c) == IF c.client THEN [client |-> FALSE, connected |-> FALSE] ELSE c

\* whether exec was reached: connect resolved
ExecReached(o) == o \in {"resolved", "SSHTimeoutError", "SSHError"}

\* mutant: only command errors are rethrown at once
Rethrown_CommandOnly(class) == class = "SSHCommandError"

\* the errors the catch block rethrows at once
Rethrown(class) == class \in {"SSHAuthenticationError", "SSHCommandError"}

\* mutant: the delays list is read from its second entry
RetryDelay_Shifted(attempt) ==
  IF attempt + 2 <= Len(delays) THEN delays[attempt + 2] ELSE 4000

\* delays[attempt] || 4000
RetryDelay(attempt) ==
  IF attempt + 1 <= Len(delays) THEN delays[attempt + 1] ELSE 4000

\* mutant: the loop runs while attempt < maxRetries
MoreAttempts_Exclusive(attempt, maxRetries) == attempt + 1 < maxRetries

\* the loop condition after attempt++ : attempt <= maxRetries
MoreAttempts(attempt, maxRetries) == attempt + 1 <= maxRetries

Event(ev, n) == [ev |-> ev, n |-> n]

NoError == [class |-> "none", attempt |-> 0]

\* one iteration of the loop of execWithRetry, the attempt ending as `o`
Attempt(r, o) ==
  LET a == r.attempt
      used == connect(NewSSHClient, o)
      closed == disconnect(used)
      err == [class |-> ErrorClass(o), attempt |-> a]
      sleeps == ~Rethrown(err.class) /\ a < r.maxRetries
      evs == <<Event("connect", a)>>
               \o (IF ExecReached(o) THEN <<Event("exec", a)>> ELSE <<>>)
               \o <<Event("disconnect", a)>>
               \o (IF o # "resolved" /\ sleeps THEN <<Event("sleep", RetryDelay(a))>>
                   ELSE <<>>)
      base == [r EXCEPT !.log = r.log \o evs,
                        !.history = Append(r.history, o),
                        !.live = r.live + (IF closed.connected THEN 1 ELSE 0)]
  IN IF o = "resolved"
     THEN [base EXCEPT !.pc = "done", !.returned = a]
     ELSE IF Rethrown(err.class)
     THEN [base EXCEPT !.pc = "done", !.thrown = err, !.lastError = err]
     ELSE IF MoreAttempts(a, r.maxRetries)
     THEN [base EXCEPT !.attempt = a + 1, !.lastError = err]
     ELSE [base EXCEPT !.pc = "done", !.thrown = err, !.lastError = err]

\* execWithRetry(config, command, maxRetries) has been called
RetryInit ==
  /\ PaIdle
  /\ local = createEmptyState(Keys)
  /\ remote = createEmptyState(Keys)
  /\ remoteDir = FALSE
  /\ containers = [n \in Names |-> NoContainer]
  /\ HostIdle
  /\ RunIdle
  /\ rec = NoRecon
  /\ nrec = 0
  /\ WaitIdle
  /\ StoreIdle
  /\ UnitIdle
  /\ \E m \in 0..RetryLimit :
       rt = [pc |-> "attempt", maxRetries |-> m, attempt |-> 0, log |-> <<>>,
             history |-> <<>>, live |-> 0, returned |-> -1, thrown |-> NoError,
             lastError |-> NoError]

RetryAttempt ==
  /\ rt.pc = "attempt"
  /\ \E o \in AttemptOutcomes : rt' = Attempt(rt, o)
  /\ UNCHANGED <<paVars, storeVars, reconVars, hostVars, runVars, waitVars, fileVars, unitVars>>

RetryNext == RetryAttempt

SpecRetry == RetryInit /\ [][RetryNext]_vars

(***************************************************************************)
(* Properties of execWithRetry.                                            *)
(***************************************************************************)
RetryDone == rt.pc = "done"

\* the events of the log of a given kind
LogOf(ev) == SelectSeq(rt.log, LAMBDA x : x.ev = ev)

LastEvent == rt.log[Len(rt.log)]

AuthOutcomes == {"SSHAuthenticationError", "key-unreadable"}

\* C13: three attempts failing with SSHConnectionError and a fourth that
\* succeeds: the call returns the result of the fourth attempt, and it slept
\* 1000, 2000 and 4000 ms, in that order, before attempts two, three and four.
C13_BackoffThenSuccess ==
  (RetryDone /\ rt.history = <<"SSHConnectionError", "SSHConnectionError",
                               "SSHConnectionError", "resolved">>) =>
    /\ rt.returned = 3
    /\ rt.thrown = NoError
    /\ rt.log = <<Event("connect", 0), Event("disconnect", 0), Event("sleep", 1000),
                  Event("connect", 1), Event("disconnect", 1), Event("sleep", 2000),
                  Event("connect", 2), Event("disconnect", 2), Event("sleep", 4000),
                  Event("connect", 3), Event("exec", 3), Event("disconnect", 3)>>

\* C13 witness: such a call has returned
C13_Witness ==
  /\ RetryDone
  /\ rt.maxRetries = 3
  /\ rt.history = <<"SSHConnectionError", "SSHConnectionError", "SSHConnectionError",
                    "resolved">>
  /\ rt.returned = 3

\* C14: an attempt that fails with SSHAuthenticationError ends the call: that
\* error is thrown, nothing is slept after it and no connect follows.
C14_AuthErrorNotRetried ==
  (rt.pc # "idle" /\ \E i \in 1..Len(rt.history) : rt.history[i] \in AuthOutcomes) =>
    /\ RetryDone
    /\ rt.history[Len(rt.history)] \in AuthOutcomes
    /\ \A i \in 1..(Len(rt.history) - 1) : rt.history[i] \notin AuthOutcomes
    /\ rt.thrown = [class |-> "SSHAuthenticationError", attempt |-> Len(rt.history) - 1]
    /\ LastEvent = Event("disconnect", Len(rt.history) - 1)
    /\ Len(LogOf("connect")) = Len(rt.history)
    /\ Len(LogOf("sleep")) = Len(rt.history) - 1

\* C14 witness: the authentication error came on the third attempt
C14_Witness ==
  /\ RetryDone
  /\ rt.history = <<"SSHConnectionError", "SSHTimeoutError", "SSHAuthenticationError">>
  /\ rt.thrown.class = "SSHAuthenticationError"

\* C15 (as claimed): an attempt whose exec fails with SSHTimeoutError or
\* another error that is not a connection error ends the call with that error,
\* and the command has been executed once.
C15_OnlyConnectionErrorsRetried ==
  (rt.pc # "idle" /\ \E i \in 1..Len(rt.history) :
                       rt.history[i] \in {"SSHTimeoutError", "SSHError"}) =>
    /\ RetryDone
    /\ rt.thrown = [class |-> rt.history[Len(rt.history)], attempt |-> Len(rt.history) - 1]
    /\ rt.thrown.class \in {"SSHTimeoutError", "SSHError"}
    /\ Len(LogOf("exec")) = 1

\* C16: when every attempt fails with SSHConnectionError the call makes
\* maxRetries+1 attempts, no client is still connected when an attempt starts
\* or when the call ends, nothing is slept after the last attempt, and the
\* error of the last attempt is thrown.
C16_ExhaustedRetries ==
  (rt.pc # "idle" /\ \A i \in 1..Len(rt.history) : rt.history[i] = "SSHConnectionError") =>
    /\ rt.live = 0
    /\ Len(LogOf("connect")) = Len(rt.history)
    /\ \A i \in 1..Len(rt.history) : LogOf("connect")[i].n = i - 1
    /\ Len(LogOf("disconnect")) = Len(rt.history)
    /\ rt.pc = "attempt" => (Len(rt.history) = rt.attempt /\ rt.attempt <= rt.maxRetries)
    /\ RetryDone =>
         /\ Len(rt.history) = rt.maxRetries + 1
         /\ rt.thrown = [class |-> "SSHConnectionError", attempt |-> rt.maxRetries]
         /\ LastEvent = Event("disconnect", rt.maxRetries)
         /\ Len(LogOf("sleep")) = rt.maxRetries

\* C16 witness: maxRetries = 3 and four connection errors
C16_Witness ==
  /\ RetryDone
  /\ rt.maxRetries = 3
  /\ rt.history = <<"SSHConnectionError", "SSHConnectionError", "SSHConnectionError",
                    "SSHConnectionError">>
  /\ rt.thrown = [class |-> "SSHConnectionError", attempt |-> 3]

(***************************************************************************)
(* The state files themselves: JSON text, and the condition of the file.   *)
(* `local` and `remote` are the collection the text of an intact file      *)
(* denotes.                                                                *)
(***************************************************************************)
\* the decimal digits JSON.stringify writes for a non-negative integer
RECURSIVE Digits(_)
Digits(n) == IF n < 10 THEN <<n>> ELSE Append(Digits(n \div 10), n % 10)

\* the number JSON.parse reads from decimal digits
RECURSIVE NumberOf(_)
NumberOf(ds) ==
  IF Len(ds) = 0 THEN 0
  ELSE 10 * NumberOf(SubSeq(ds, 1, Len(ds) - 1)) + ds[Len(ds)]

\* schema.ts validateState: requiredFields, in the order they are tested
requiredFields ==
  <<"port", "dbName", "username", "password", "rootPassword", "volume", "containerName",
    "createdAt">>

RequiredFields == {requiredFields[i] : i \in DOMAIN requiredFields}

\* Object.entries(instances): the entries in the order the file holds them
KeyOrder == <<createInstanceKey(Project, "dev"), createInstanceKey(Project, "dev2")>>

\* what a StateValidationError says
NoStateError == [kind |-> "none", field |-> "", key |-> ""]

OtherStateError == [kind |-> "other", field |-> "", key |-> ""]

MissingField(field, key) == [kind |-> "missing-field", field |-> field, key |-> key]

\* mutant: the creation time is left out of the text
JSONstringify_WithoutCreatedAt(state) ==
  [k \in Present(state) |->
     [f \in DOMAIN state[k] \ {"createdAt"} |->
        IF f = "port" THEN Digits(state[k][f]) ELSE state[k][f]]]

\* JSON.stringify(state, null, 2): the entries of instances, the port in
\* decimal digits, the strings as they are; a key without a record has no entry
JSONstringify(state) ==
  [k \in Present(state) |->
     [f \in DOMAIN state[k] |-> IF f = "port" THEN Digits(state[k][f]) ELSE state[k][f]]]

\* JSON.parse of such a text
JSONparse(text) ==
  [k \in Keys |->
     IF k \in DOMAIN text
     THEN [f \in DOMAIN text[k] |->
             IF f = "port" THEN NumberOf(text[k][f]) ELSE text[k][f]]
     ELSE NoRec]

\* mutant: a record that lacks a field is left out and the rest is returned
validateState_DropsBadRecords(parsed) ==
  [state |-> [k \in DOMAIN parsed |->
                IF parsed[k] # NoRec /\ RequiredFields \subseteq DOMAIN parsed[k]
                THEN parsed[k] ELSE NoRec],
   throws |-> FALSE, error |-> NoStateError]

\* schema.ts validateState on a parsed object with an instances object whose
\* entries hold values of the right types: the entries are taken in file
\* order, the required fields in the order of requiredFields, and the first
\* field found undefined is thrown
validateState(parsed) ==
  LET bad == {i \in DOMAIN KeyOrder :
                /\ parsed[KeyOrder[i]] # NoRec
                /\ ~(RequiredFields \subseteq DOMAIN parsed[KeyOrder[i]])}
  IN IF bad = {}
     THEN [state |-> parsed, throws |-> FALSE, error |-> NoStateError]
     ELSE LET i == CHOOSE n \in bad : \A m \in bad : n <= m
              key == KeyOrder[i]
              gone == {j \in DOMAIN requiredFields : requiredFields[j] \notin DOMAIN parsed[key]}
              j == CHOOSE n \in gone : \A m \in gone : n <= m
          IN [state |-> createEmptyState(Keys), throws |-> TRUE,
              error |-> MissingField(requiredFields[j], key)]

\* the file is absent, holds the text of a collection (of records that may
\* lack fields), cannot be read by the user, holds text that is not JSON, or
\* JSON without an instances object
FileStatus == {"absent", "valid", "unreadable", "corrupt", "invalid"}

Threw == [state |-> createEmptyState(Keys), throws |-> TRUE, error |-> OtherStateError]

ReadEmpty == [state |-> createEmptyState(Keys), throws |-> FALSE, error |-> NoStateError]

\* mutant: a missing file is reported as an error
readStateFile_ThrowsWhenAbsent(status, content) ==
  IF status = "valid" THEN validateState(readState(content)) ELSE Threw

\* manager.ts readState on the file: access() fails on an absent file and the
\* empty collection is returned; readFile, JSON.parse and validateState throw
readStateFile(status, content) ==
  IF status = "absent" THEN ReadEmpty
  ELSE IF status = "valid" THEN validateState(readState(content))
  ELSE Threw

\* manager.ts writeState on the file
writeStateFile(status, content, state, w) ==
  LET wr == writeState(content, JSONparse(JSONstringify(state)), w)
  IN [status |-> IF wr.throws THEN status ELSE "valid", local |-> wr.local,
      throws |-> wr.throws]

\* remote.ts readRemoteState on the file: `cat` exits non-zero on an absent
\* and on an unreadable file alike, exec resolves, and the exit code alone
\* decides for the empty collection
readRemoteStateFile(status, content, r) ==
  IF r = "reject" THEN Threw
  ELSE IF status \in {"absent", "unreadable"}
  THEN ReadEmpty
  ELSE IF status = "valid"
  THEN LET rd == readRemoteState(content, r)
       IN IF rd.throws THEN Threw ELSE validateState(rd.state)
  ELSE Threw

\* remote.ts writeRemoteState on the file
writeRemoteStateFile(status, dir, content, state, e, b) ==
  LET wr == writeRemoteState(dir, content, JSONparse(JSONstringify(state)), e, b)
  IN [status |-> IF wr.moved THEN "valid" ELSE status, dir |-> wr.dir, file |-> wr.file,
      throws |-> wr.throws]

(***************************************************************************)
(* SpecStore: reads and writes of the two state files.                     *)
(***************************************************************************)
\* how many store calls one behaviour of SpecStore makes
MaxStoreOps == 2

\* the collections written and initially held
StoreCollections ==
  {createEmptyState(Keys),
   [createEmptyState(Keys) EXCEPT ![createInstanceKey(Project, "dev")] = EarlierRecord("dev")],
   [k \in Keys |->
      IF k = createInstanceKey(Project, "dev")
      THEN InstanceMetadata(Project, "dev", MAX_PORT, Cred2, Timestamp(1))
      ELSE EarlierRecord("dev2")]}

\* a record without the fields fs
Without(r, fs) == [f \in DOMAIN r \ fs |-> r[f]]

\* collections a file may hold in which a record lacks required fields
DefectiveCollections ==
  LET dev == createInstanceKey(Project, "dev")
      dev2 == createInstanceKey(Project, "dev2")
  IN {[k \in Keys |->
         IF k = dev THEN EarlierRecord("dev")
         ELSE Without(EarlierRecord("dev2"), {"password", "volume"})],
      [k \in Keys |->
         IF k = dev THEN Without(EarlierRecord("dev"), {"createdAt"})
         ELSE Without(EarlierRecord("dev2"), {"port"})]}

\* the record kept of a store call: the status and content of the file before
\* it, and what the call returned or threw
StoreEntry(op, arg, status0, content0, resolved, out) ==
  [op |-> op, arg |-> arg, status0 |-> status0, content0 |-> content0,
   resolved |-> resolved, state |-> out.state, throws |-> out.throws, error |-> out.error]

StoreInit ==
  /\ PaIdle
  /\ containers = [n \in Names |-> NoContainer]
  /\ HostIdle
  /\ RunIdle
  /\ rec = NoRecon
  /\ nrec = 0
  /\ WaitIdle
  /\ RetryIdle
  /\ UnitIdle
  /\ local \in StoreCollections \cup DefectiveCollections
  /\ lfile \in FileStatus
  /\ lfile # "valid" => local = createEmptyState(Keys)
  /\ remote \in StoreCollections \cup DefectiveCollections
  /\ rfile \in FileStatus
  /\ rfile # "valid" => remote = createEmptyState(Keys)
  /\ remoteDir \in BOOLEAN
  /\ slog = <<>>

StoreWriteLocal(state) ==
  /\ Len(slog) < MaxStoreOps
  /\ \E w \in LocalWrites :
       LET out == writeStateFile(lfile, local, state, w)
       IN /\ local' = out.local
          /\ lfile' = out.status
          /\ slog' = Append(slog, StoreEntry("writeState", state, lfile, local, TRUE,
                                             [state |-> state, throws |-> out.throws,
                                              error |-> NoStateError]))
  /\ UNCHANGED <<paVars, remote, remoteDir, rfile, reconVars, hostVars, runVars, waitVars, rt, unitVars>>

StoreReadLocal ==
  /\ Len(slog) < MaxStoreOps
  /\ slog' = Append(slog, StoreEntry("readState", createEmptyState(Keys), lfile, local, TRUE,
                                     readStateFile(lfile, local)))
  /\ UNCHANGED <<paVars, storeVars, lfile, rfile, reconVars, hostVars, runVars, waitVars, rt, unitVars>>

StoreWriteRemote(state) ==
  /\ Len(slog) < MaxStoreOps
  /\ \E e \in EnsureOutcomes, b \in BodyOutcomes :
       LET out == writeRemoteStateFile(rfile, remoteDir, remote, state, e, b)
       IN /\ remote' = out.file
          /\ remoteDir' = out.dir
          /\ rfile' = out.status
          /\ slog' = Append(slog, StoreEntry("writeRemoteState", state, rfile, remote, TRUE,
                                             [state |-> state, throws |-> out.throws,
                                              error |-> NoStateError]))
  /\ UNCHANGED <<paVars, local, lfile, reconVars, hostVars, runVars, waitVars, rt, unitVars>>

StoreReadRemote ==
  /\ Len(slog) < MaxStoreOps
  /\ \E r \in ExecOutcomes :
       slog' = Append(slog, StoreEntry("readRemoteState", createEmptyState(Keys), rfile, remote,
                                       r = "resolve", readRemoteStateFile(rfile, remote, r)))
  /\ UNCHANGED <<paVars, storeVars, lfile, rfile, reconVars, hostVars, runVars, waitVars, rt, unitVars>>

StoreNext ==
  \/ \E state \in StoreCollections : StoreWriteLocal(state)
  \/ StoreReadLocal
  \/ \E state \in StoreCollections : StoreWriteRemote(state)
  \/ StoreReadRemote

SpecStore == StoreInit /\ [][StoreNext]_vars

(***************************************************************************)
(* Properties of the state stores.                                         *)
(***************************************************************************)
LastCall == slog[Len(slog)]

PrevCall == slog[Len(slog) - 1]

\* the last call is `op2` and the one before it `op1`
Calls(op1, op2) == Len(slog) >= 2 /\ PrevCall.op = op1 /\ LastCall.op = op2

\* C17 (as claimed): a readRemoteState that follows a writeRemoteState(s)
\* which returned without throwing returns s.
C17_RemoteRoundTrip ==
  (/\ Calls("writeRemoteState", "readRemoteState")
   /\ ~PrevCall.throws
   /\ LastCall.resolved) =>
    /\ ~LastCall.throws
    /\ LastCall.state = PrevCall.arg

\* C18: a readState that follows a writeState(s) which returned returns s.
C18_LocalRoundTrip ==
  (Calls("writeState", "readState") /\ ~PrevCall.throws) =>
    /\ ~LastCall.throws
    /\ LastCall.state = PrevCall.arg

\* C18 witness: a collection of two records was written over a corrupt file
\* and read back
C18_Witness ==
  /\ Calls("writeState", "readState")
  /\ PrevCall.status0 = "corrupt"
  /\ ~PrevCall.throws
  /\ Cardinality(Present(PrevCall.arg)) = 2
  /\ LastCall.state = PrevCall.arg

\* C19 (as claimed): readRemoteState returns the empty collection only for an
\* absent file or one that holds the empty collection; on a file that cannot
\* be read, parsed or validated it throws.
C19_RemoteReadHardErrors ==
  (Len(slog) >= 1 /\ LastCall.op = "readRemoteState") =>
    /\ LastCall.status0 \in {"unreadable", "corrupt", "invalid"} => LastCall.throws
    /\ (~LastCall.throws /\ LastCall.state = createEmptyState(Keys)) =>
         LastCall.status0 \in {"absent", "valid"}

\* C20: readState, and a readRemoteState whose command runs, return the
\* empty collection and do not throw when the file does not exist.
C20_MissingFileReadsEmpty ==
  (/\ Len(slog) >= 1
   /\ LastCall.op \in {"readState", "readRemoteState"}
   /\ LastCall.status0 = "absent"
   /\ LastCall.resolved) =>
    /\ ~LastCall.throws
    /\ LastCall.state = createEmptyState(Keys)

\* C20 witness: both reads were made with neither file there
C20_Witness ==
  /\ Len(slog) = 2
  /\ {slog[1].op, slog[2].op} = {"readState", "readRemoteState"}
  /\ lfile = "absent" /\ rfile = "absent" /\ ~remoteDir
  /\ \A i \in 1..2 : ~slog[i].throws /\ slog[i].state = createEmptyState(Keys)

\* the keys whose record in `c` lacks a required field
Lacking(c) == {k \in Present(c) : \E f \in RequiredFields : f \notin DOMAIN c[k]}

\* C21: readState and readRemoteState of a file in which a record lacks a
\* required field throw a StateValidationError that names a field the record
\* lacks and the key of that record; nothing is returned.
C21_MissingFieldRejected ==
  (/\ Len(slog) >= 1
   /\ LastCall.op \in {"readState", "readRemoteState"}
   /\ LastCall.status0 = "valid"
   /\ LastCall.resolved
   /\ Lacking(LastCall.content0) # {}) =>
    /\ LastCall.throws
    /\ LastCall.error.kind = "missing-field"
    /\ LastCall.error.key \in Lacking(LastCall.content0)
    /\ LastCall.error.field \in RequiredFields \ DOMAIN LastCall.content0[LastCall.error.key]
    /\ Present(LastCall.state) = {}

\* C21 witness: both files hold two records, the second without password and
\* volume, and both reads threw naming the password of app/dev2
C21_Witness ==
  /\ Len(slog) = 2
  /\ {slog[1].op, slog[2].op} = {"readState", "readRemoteState"}
  /\ \A i \in 1..2 :
       /\ Cardinality(Present(slog[i].content0)) = 2
       /\ Cardinality(Lacking(slog[i].content0)) = 1
       /\ slog[i].throws
       /\ slog[i].error = MissingField("password", createInstanceKey(Project, "dev2"))

(***************************************************************************)
(* Sessions of provisionInstance.                                          *)
(***************************************************************************)
\* C26 (as claimed): during a run no more than one SSH session to the host
\* is open at any time; sshClient is not connected while ensureDockerReady
\* holds the session of its own client.
C26_OneSessionAtATime == sessions <= 1

(***************************************************************************)
(* SpecDocker: ensureDockerReady called on a host without docker, with a   *)
(* stopped daemon or with a running one.                                   *)
(***************************************************************************)
\* how many ensureDockerReady calls one behaviour of SpecDocker makes
MaxDockerCalls == 2

\* the record kept of the call
DockerRecord(d, e, out) ==
  [docker0 |-> d, connect |-> e.connect, denied |-> e.denied,
   throws |-> out.throws, error |-> out.error, log |-> out.log, group |-> out.group]

DockerInit ==
  /\ PaIdle
  /\ containers = [n \in Names |-> NoContainer]
  /\ local = createEmptyState(Keys)
  /\ remote = createEmptyState(Keys)
  /\ remoteDir = TRUE
  /\ docker \in {"absent", "stopped", "running"}
  /\ volumes = {}
  /\ image = FALSE
  /\ users = {}
  /\ RunIdle
  /\ rec = NoRecon
  /\ nrec = 0
  /\ AuxIdle

DockerCall ==
  /\ Len(dkr) < MaxDockerCalls
  /\ \E e \in DockerEnvs :
       LET out == ensureDockerReady(docker, e)
       IN /\ docker' = out.docker
          /\ dkr' = Append(dkr, DockerRecord(docker, e, out))
  /\ UNCHANGED <<paVars, storeVars, reconVars, containers, volumes, image, users, runVars,
                 waitVars, rt, fileVars, wop, xop, dst, moreVars>>

DockerNext == DockerCall

SpecDocker == DockerInit /\ [][DockerNext]_vars

(***************************************************************************)
(* Properties of ensureDockerReady, on the record of the call.             *)
(***************************************************************************)
\* the last call
DockerCalled == dkr # <<>>

LastDocker == dkr[Len(dkr)]

\* the positions of the log at which `fn` issued a command
IssuedBy(fn) == {i \in 1..Len(LastDocker.log) : LastDocker.log[i].fn = fn}

\* the positions of the log at which the command `cmd` was issued
Issued(cmd) == {i \in 1..Len(LastDocker.log) : LastDocker.log[i].cmd = cmd}

First(S) == CHOOSE i \in S : \A j \in S : i <= j

\* C27 (as claimed): with docker installed and the daemon running, a
\* `docker ps` that is denied to the configured user does not make
\* ensureDockerReady fail: the user is added to the docker group and the call
\* returns.
C27_PermissionNeverFatal ==
  (DockerCalled /\ LastDocker.connect = "ok" /\ LastDocker.docker0 = "running" /\ LastDocker.denied) =>
    /\ ~LastDocker.throws
    /\ LastDocker.group

\* the installer exited 0 and the `docker --version` that followed its
\* removal found nothing
InstalledNothing ==
  \E i \in Issued("sudo sh get-docker.sh") :
    /\ LastDocker.log[i].outcome = "ok"
    /\ Len(LastDocker.log) >= i + 2
    /\ LastDocker.log[i + 2].cmd = "docker --version"
    /\ LastDocker.log[i + 2].outcome # "ok"

\* C28: when docker is absent, the installer exits 0 and the probe after it
\* still finds no docker, ensureDockerReady throws DockerInstallationError and
\* issues no daemon probe, no start command and no permission step.
C28_InstallWithoutEffectIsFatal ==
  (DockerCalled /\ LastDocker.docker0 = "absent" /\ InstalledNothing) =>
    /\ LastDocker.throws
    /\ LastDocker.error = "DockerInstallationError"
    /\ IssuedBy("checkDockerDaemon") = {}
    /\ IssuedBy("startDockerDaemon") = {}
    /\ IssuedBy("ensureDockerPermissions") = {}
    /\ ~LastDocker.group

\* C28 witness: such a call, ended by the probe after the installer
C28_Witness ==
  /\ DockerCalled
  /\ LastDocker.docker0 = "absent"
  /\ InstalledNothing
  /\ LastDocker.throws
  /\ LastDocker.log[Len(LastDocker.log)].cmd = "docker --version"
  /\ docker = "absent"

\* the first daemon probe of the call exited non-zero
FirstProbeFailed ==
  /\ DockerCalled
  /\ IssuedBy("checkDockerDaemon") # {}
  /\ LastDocker.log[First(IssuedBy("checkDockerDaemon"))].outcome # "ok"

\* C29: after a failed daemon probe the start command is issued; unless its
\* exec rejects, the settle delay and a second probe follow; the permission
\* step is reached exactly when that second probe succeeds, and otherwise the
\* call throws DockerDaemonError.
C29_StartThenReprobe ==
  FirstProbeFailed =>
    LET i == First(IssuedBy("checkDockerDaemon"))
        reprobed == /\ Len(LastDocker.log) >= i + 3
                    /\ LastDocker.log[i + 2].cmd = "settle"
                    /\ LastDocker.log[i + 3] \in {Cmd("checkDockerDaemon", "docker ps", o) :
                                            o \in {"ok", "nonzero"}}
        reached == IssuedBy("ensureDockerPermissions") # {}
    IN /\ Len(LastDocker.log) >= i + 1
       /\ LastDocker.log[i + 1].cmd = "sudo systemctl start docker"
       /\ LastDocker.log[i + 1].outcome # "reject" => reprobed
       /\ reached <=> (reprobed /\ LastDocker.log[i + 3].outcome = "ok")
       /\ ~reached => LastDocker.throws /\ LastDocker.error = "DockerDaemonError"
       /\ reached => ~LastDocker.throws

\* C29 witness: a stopped daemon was started and the second probe led on to
\* the permission step
C29_Witness ==
  /\ FirstProbeFailed
  /\ LastDocker.docker0 = "stopped"
  /\ docker = "running"
  /\ LastDocker.log[First(IssuedBy("checkDockerDaemon")) + 3].outcome = "ok"
  /\ IssuedBy("ensureDockerPermissions") # {}
  /\ ~LastDocker.throws

\* C29 witness of the other branch: the second probe failed too
C29_WitnessStillDown ==
  /\ FirstProbeFailed
  /\ Len(LastDocker.log) = First(IssuedBy("checkDockerDaemon")) + 3
  /\ LastDocker.log[Len(LastDocker.log)].outcome = "nonzero"
  /\ LastDocker.throws

(***************************************************************************)
(* SpecWrite: writeState and writeRemoteState step by step, with the temp  *)
(* file. `file` is what the path of the state file holds: the "old" text,  *)
(* the "new" text or a "partial" one; `tmp` is what state.json.tmp holds:  *)
(* "none", the "new" text, a "partial" one, or a "stale" one left by an    *)
(* earlier write. `dir` says whether the state directory exists and is     *)
(* writable.                                                               *)
(***************************************************************************)
\* how many writes one behaviour of SpecWrite makes
MaxWrites == 2

WriteRecord(store, n, step, file, tmp, dir) ==
  [store |-> store, n |-> n, pc |-> step, file |-> file, tmp |-> tmp, dir |-> dir,
   outcome |-> "running", renameFailed |-> FALSE]

FirstStep(store) == IF store = "local" THEN "mkdir" ELSE "ensure"

WriteAt(store, step) ==
  /\ wop.pc = step
  /\ wop.store = store
  /\ wop.outcome = "running"

\* the write ends: it returned, threw, or its process was killed
Ended(w, outcome) == [w EXCEPT !.outcome = outcome]

WriteFrame ==
  UNCHANGED <<paVars, storeVars, reconVars, hostVars, runVars, waitVars, rt, fileVars,
              xop, dkr, dst, moreVars>>

WriteInit ==
  /\ PaIdle
  /\ containers = [n \in Names |-> NoContainer]
  /\ local = createEmptyState(Keys)
  /\ remote = createEmptyState(Keys)
  /\ remoteDir = TRUE
  /\ HostIdle
  /\ RunIdle
  /\ rec = NoRecon
  /\ nrec = 0
  /\ AuxIdle

\* a write is called: the first on a directory that may be missing and with
\* or without a temp file left behind, a later one on what the one before
\* it left
WriteBegin(store) ==
  /\ \/ /\ wop = NoWrite
        /\ \E dir \in BOOLEAN, tmp \in {"none", "stale"} :
             /\ ~dir => tmp = "none"
             /\ wop' = WriteRecord(store, 1, FirstStep(store), "old", tmp, dir)
     \/ /\ wop # NoWrite
        /\ wop.outcome # "running"
        /\ wop.store = store
        /\ wop.n < MaxWrites
        /\ wop' = WriteRecord(store, wop.n + 1, FirstStep(store),
                              IF wop.file = "new" THEN "old" ELSE wop.file,
                              IF wop.tmp = "none" THEN "none" ELSE "stale", wop.dir)
  /\ WriteFrame

\* writeState 233-241: mkdir (recursive) and chmod of the directory
LocalMkdir ==
  /\ WriteAt("local", "mkdir")
  /\ \/ wop' = [wop EXCEPT !.pc = "writeFile", !.dir = TRUE]
     \/ wop' = Ended(wop, "threw")
  /\ WriteFrame

\* writeState 246-253: writeFile(tempPath, content); a failure may leave the
\* temp file as it was or partly written
LocalWriteFile ==
  /\ WriteAt("local", "writeFile")
  /\ \/ wop' = [wop EXCEPT !.pc = "rename", !.tmp = "new"]
     \/ \E t \in {wop.tmp, "partial"} : wop' = Ended([wop EXCEPT !.tmp = t], "threw")
  /\ WriteFrame

\* writeState 255-263: rename(tempPath, statePath); the catch block throws
\* and does nothing about the temp file
LocalRename ==
  /\ WriteAt("local", "rename")
  /\ \/ wop' = [wop EXCEPT !.pc = "chmod", !.file = wop.tmp, !.tmp = "none"]
     \/ wop' = Ended([wop EXCEPT !.renameFailed = TRUE], "threw")
  /\ WriteFrame

\* writeState 265-271: chmod of the file, a failure is only warned about
LocalChmod ==
  /\ WriteAt("local", "chmod")
  /\ wop' = Ended([wop EXCEPT !.pc = "done"], "returned")
  /\ WriteFrame

\* writeRemoteState 124: ensureRemoteStateDirectory, outside the try block
RemoteEnsure ==
  /\ WriteAt("remote", "ensure")
  /\ \E e \in EnsureOutcomes :
       LET ens == ensureRemoteStateDirectory(wop.dir, e)
       IN wop' = IF ens.throws THEN Ended(wop, "threw")
                 ELSE [wop EXCEPT !.pc = "cat", !.dir = ens.dir]
  /\ WriteFrame

\* what `cat > state.json.tmp` leaves behind: with exit code 0 the new text;
\* with a non-zero exit code nothing new where the file cannot be created,
\* and a partial text where the write fails midway (disk full); on a
\* rejected exec the temp file as it was or a partial text
CatEffects(w, o) ==
  IF ~w.dir THEN {w.tmp}
  ELSE IF o = "ok" THEN {"new"}
  ELSE IF o = "nonzero" THEN {"partial"}
  ELSE {w.tmp, "partial"}

\* the step after a command of the try block: the next command when exec
\* resolved, whatever the exit code; the catch block when it rejected
AfterExec(o, next) == IF o = "reject" THEN "cleanup" ELSE next

\* writeRemoteState 131: cat > tmp
RemoteCat ==
  /\ WriteAt("remote", "cat")
  /\ \E o \in CommandOutcomes :
       /\ ~wop.dir => o # "ok"
       /\ \E t \in CatEffects(wop, o) :
            wop' = [wop EXCEPT !.pc = AfterExec(o, "chmod"), !.tmp = t]
  /\ WriteFrame

\* writeRemoteState 134: chmod 600 tmp
RemoteChmod ==
  /\ WriteAt("remote", "chmod")
  /\ \E o \in CommandOutcomes :
       /\ wop.tmp = "none" => o # "ok"
       /\ wop' = [wop EXCEPT !.pc = AfterExec(o, "mv")]
  /\ WriteFrame

\* writeRemoteState 137: mv tmp state.json. With exit code 0 the temp file
\* has become the state file; with a non-zero exit code nothing moved; a
\* rejected exec may or may not have moved it.
RemoteMv ==
  /\ WriteAt("remote", "mv")
  /\ \E o \in CommandOutcomes, moved \in BOOLEAN :
       /\ moved => wop.tmp # "none" /\ wop.dir
       /\ o = "ok" => moved
       /\ o = "nonzero" => ~moved
       /\ wop' = [wop EXCEPT !.pc = AfterExec(o, "test"),
                             !.file = IF moved THEN wop.tmp ELSE wop.file,
                             !.tmp = IF moved THEN "none" ELSE wop.tmp,
                             !.renameFailed = ~moved]
  /\ WriteFrame

\* writeRemoteState 140: test -f state.json
RemoteTest ==
  /\ WriteAt("remote", "test")
  /\ \E o \in CommandOutcomes :
       wop' = IF o = "reject" THEN [wop EXCEPT !.pc = "cleanup"]
              ELSE Ended([wop EXCEPT !.pc = "done"], "returned")
  /\ WriteFrame

\* writeRemoteState 141-152: the catch block, `rm -f tmp` (its own failure is
\* swallowed) and the throw of StateValidationError
RemoteCleanup ==
  /\ WriteAt("remote", "cleanup")
  /\ \E o \in CommandOutcomes :
       wop' = Ended([wop EXCEPT !.tmp = IF o = "ok" THEN "none" ELSE wop.tmp], "threw")
  /\ WriteFrame

\* the writer is interrupted (the process killed, the machine halted)
\* before its next step or in the middle of writing the temp file
WriteInterrupt ==
  /\ wop # NoWrite
  /\ wop.outcome = "running"
  /\ \E t \in {wop.tmp} \cup (IF wop.pc \in {"writeFile", "cat"} /\ wop.dir
                              THEN {"partial"} ELSE {}) :
       wop' = Ended([wop EXCEPT !.tmp = t], "killed")
  /\ WriteFrame

WriteNext ==
  \/ \E store \in {"local", "remote"} : WriteBegin(store)
  \/ LocalMkdir
  \/ LocalWriteFile
  \/ LocalRename
  \/ LocalChmod
  \/ RemoteEnsure
  \/ RemoteCat
  \/ RemoteChmod
  \/ RemoteMv
  \/ RemoteTest
  \/ RemoteCleanup
  \/ WriteInterrupt

SpecWrite == WriteInit /\ [][WriteNext]_vars

(***************************************************************************)
(* Properties of the state writes.                                         *)
(***************************************************************************)
\* C22 (as claimed): at every point of a write, and after an interruption at
\* any point, the path of the state file holds the complete old text or the
\* complete new text, never a partial one.
C22_NeverTorn == wop # NoWrite => wop.file \in {"old", "new"}

\* C23 (as claimed): when the rename step of a write failed and the write
\* has thrown its error, the temp file is gone.
C23_NoTempAfterFailedRename ==
  (wop # NoWrite /\ wop.renameFailed /\ wop.outcome = "threw") => wop.tmp = "none"

\* the local write keeps the state file whole at every step and under every
\* interruption
LocalNeverTorn == (wop # NoWrite /\ wop.store = "local") => wop.file \in {"old", "new"}

(***************************************************************************)
(* SpecExec: SSHClient.exec (ssh/client.ts 205-288), one action per event  *)
(* of a call: the callback of client.exec, data on the stream, its close,  *)
(* a stream error, and the timer. stdout and stderr are counted in chunks. *)
(***************************************************************************)
\* how many exec calls one behaviour of SpecExec makes
MaxExecs == 2

\* how many chunks of output a command writes at most
MaxChunks == 2

\* the `code` of a 'close' event: an exit code, or none (NoCode) when the
\* command was ended by a signal
NoCode == -1

CloseCodes == {NoCode, 0, 1, 127}

NoExecResult == [absent |-> TRUE]

\* ExecResult, 259-263: `exitCode: code ?? 0`
ExecResult(stdout, stderr, code) ==
  [stdout |-> stdout, stderr |-> stderr, exitCode |-> IF code = NoCode THEN 0 ELSE code]

\* `resolved = true` followed by resolve(result) or reject(error)
Settle(x, outcome, res) ==
  [x EXCEPT !.resolved = TRUE, !.outcome = outcome, !.result = res,
            !.settled = x.settled + 1]

\* clearTimeout(timeoutHandle): nothing to clear once the timer has fired
clearTimeout(x) == [x EXCEPT !.timer = IF x.timer = "armed" THEN "cleared" ELSE x.timer]

\* the timeout handler, 227-232
onTimeout(x) ==
  LET y == [x EXCEPT !.timer = "fired"]
  IN IF ~y.resolved THEN Settle(y, "SSHTimeoutError", NoExecResult) ELSE y

\* the callback of this.client.exec, 234-247 and the handlers it attaches
onExecCallback(x, err) ==
  IF err
  THEN LET y == [clearTimeout(x) EXCEPT !.pc = "failed"]
       IN IF ~y.resolved THEN Settle(y, "SSHError", NoExecResult) ELSE y
  ELSE [x EXCEPT !.pc = "open"]

\* stream.on('data') and stream.stderr.on('data'), 249-256
onData(x, fd) ==
  IF fd = "stdout" THEN [x EXCEPT !.stdout = x.stdout + 1]
  ELSE [x EXCEPT !.stderr = x.stderr + 1]

\* mutant: a non-zero exit code rejects with SSHCommandError
onClose_RejectsNonZero(x, code) ==
  LET y == [clearTimeout(x) EXCEPT !.pc = "closed"]
  IN IF y.resolved THEN y
     ELSE IF code \in {NoCode, 0}
     THEN Settle(y, "resolved", ExecResult(y.stdout, y.stderr, code))
     ELSE Settle(y, "SSHCommandError", NoExecResult)

\* mutant: the close handler does not look at `resolved`
onClose_Unguarded(x, code) ==
  Settle([clearTimeout(x) EXCEPT !.pc = "closed"], "resolved",
         ExecResult(x.stdout, x.stderr, code))

\* stream.on('close'), 258-271
onClose(x, code) ==
  LET y == [clearTimeout(x) EXCEPT !.pc = "closed"]
  IN IF ~y.resolved
     THEN Settle(y, "resolved", ExecResult(y.stdout, y.stderr, code))
     ELSE y

\* stream.on('error'), 273-285
onStreamError(x) ==
  LET y == [clearTimeout(x) EXCEPT !.errored = TRUE]
  IN IF ~y.resolved THEN Settle(y, "SSHError", NoExecResult) ELSE y

\* the first event of the call that tries to settle it, with the exit code
\* and the output received by then (kept for the properties)
Noted(x, y, event, code) ==
  IF x.first = "none"
  THEN [y EXCEPT !.first = event, !.code = code, !.stdout0 = x.stdout, !.stderr0 = x.stderr]
  ELSE y

\* exec(command) on a client: 206-208 throw when it is not connected;
\* otherwise the promise is made and the timer armed
NewExec(n, connected) ==
  LET x == [n |-> n, pc |-> "called", connected |-> connected, resolved |-> FALSE,
            timer |-> "armed", stdout |-> 0, stderr |-> 0, errored |-> FALSE, settled |-> 0,
            outcome |-> "pending", result |-> NoExecResult, first |-> "none",
            code |-> NoCode, stdout0 |-> 0, stderr0 |-> 0]
  IN IF connected THEN x
     ELSE [x EXCEPT !.pc = "failed", !.timer = "unset", !.settled = 1, !.outcome = "SSHError",
                    !.first = "not-connected"]

ExecFrame ==
  UNCHANGED <<paVars, storeVars, reconVars, hostVars, runVars, waitVars, rt, fileVars,
              wop, dkr, dst, moreVars>>

ExecInit ==
  /\ PaIdle
  /\ containers = [n \in Names |-> NoContainer]
  /\ local = createEmptyState(Keys)
  /\ remote = createEmptyState(Keys)
  /\ remoteDir = TRUE
  /\ HostIdle
  /\ RunIdle
  /\ rec = NoRecon
  /\ nrec = 0
  /\ AuxIdle

\* a call is made: the first on a client that is connected or not, a later
\* one, after the one before it has settled, on the same client
ExecCall ==
  /\ \/ /\ xop = NoExec
        /\ \E connected \in BOOLEAN : xop' = NewExec(1, connected)
     \/ /\ xop # NoExec
        /\ xop.outcome # "pending"
        /\ xop.n < MaxExecs
        /\ xop' = NewExec(xop.n + 1, xop.connected)
  /\ ExecFrame

ExecPending == xop # NoExec /\ xop.connected

ExecCallback ==
  /\ ExecPending
  /\ xop.pc = "called"
  /\ \E err \in BOOLEAN :
       xop' = IF err THEN Noted(xop, onExecCallback(xop, err), "callback-error", NoCode)
              ELSE onExecCallback(xop, err)
  /\ ExecFrame

ExecData ==
  /\ ExecPending
  /\ xop.pc = "open"
  /\ xop.stdout + xop.stderr < MaxChunks
  /\ \E fd \in {"stdout", "stderr"} : xop' = onData(xop, fd)
  /\ ExecFrame

ExecClose ==
  /\ ExecPending
  /\ xop.pc = "open"
  /\ \E code \in CloseCodes : xop' = Noted(xop, onClose(xop, code), "close", code)
  /\ ExecFrame

ExecStreamError ==
  /\ ExecPending
  /\ xop.pc = "open"
  /\ ~xop.errored
  /\ xop' = Noted(xop, onStreamError(xop), "stream-error", NoCode)
  /\ ExecFrame

ExecTimer ==
  /\ ExecPending
  /\ xop.timer = "armed"
  /\ xop' = Noted(xop, onTimeout(xop), "timer", NoCode)
  /\ ExecFrame

ExecNext ==
  \/ ExecCall
  \/ ExecCallback
  \/ ExecData
  \/ ExecClose
  \/ ExecStreamError
  \/ ExecTimer

SpecExec == ExecInit /\ [][ExecNext]_vars

C25_SettlesExactlyOnce ==
  xop # NoExec =>
    /\ xop.settled <= 1
    /\ xop.settled = 1 <=> xop.first # "none"
    /\ xop.timer # "armed" => xop.settled = 1
    /\ xop.first = "close" =>
         /\ xop.outcome = "resolved"
         /\ xop.result = ExecResult(xop.stdout0, xop.stderr0, xop.code)
    /\ xop.first = "timer" =>
         /\ xop.outcome = "SSHTimeoutError"
         /\ xop.result = NoExecResult
         /\ xop.connected
    /\ xop.first \in {"stream-error", "callback-error", "not-connected"} =>
         /\ xop.outcome = "SSHError"
         /\ xop.result = NoExecResult

\* C25 witness: the timer fired while the command was still writing; output
\* and the close of the stream came afterwards, and the next call was made
\* on the same client
C25_Witness ==
  /\ xop # NoExec
  /\ xop.first = "timer"
  /\ xop.pc = "closed"
  /\ xop.stdout + xop.stderr > xop.stdout0 + xop.stderr0
  /\ xop.outcome = "SSHTimeoutError"
  /\ xop.settled = 1

\* C25 witness of the other order: the stream closed first with all its
\* output, the second call of the client
C25_WitnessClosedFirst ==
  /\ xop # NoExec
  /\ xop.n = 2
  /\ xop.first = "close"
  /\ xop.stdout0 + xop.stderr0 = MaxChunks
  /\ xop.outcome = "resolved"

(***************************************************************************)
(* SpecDestroy: the destroy command (commands/destroy.ts), one action per  *)
(* removal step.                                                           *)
(***************************************************************************)
\* how many destroy commands one behaviour of SpecDestroy runs
MaxDestroys == 1

\* state/remote.ts removeRemoteInstance
removeRemoteInstance(dir, file, key, r, e, b) ==
  LET rd == readRemoteState(file, r)
  IN IF rd.throws
     THEN [dir |-> dir, file |-> file, throws |-> TRUE, removed |-> FALSE]
     ELSE IF rd.state[key] = NoRec
     THEN [dir |-> dir, file |-> file, throws |-> FALSE, removed |-> FALSE]
     ELSE LET w == writeRemoteState(dir, file, [rd.state EXCEPT ![key] = NoRec], e, b)
          IN [dir |-> w.dir, file |-> w.file, throws |-> w.throws, removed |-> ~w.throws]

\* the steps of the command once the instance was found and confirmed
DestroyOrder == <<"connect", "container", "volume", "backups", "remote", "local", "exited">>

\* the steps whose failure is put to the user ('Continue with remaining
\* cleanup?'); the failures of the others are caught and warned about
PromptedSteps == {"container", "volume"}

\* mutant: a failed update of the remote state ends the command
DestroyStepAfter_RemoteFailureExits(step, failed, goOn) ==
  IF failed /\ (step = "remote" \/ (step \in PromptedSteps /\ ~goOn))
  THEN "exited"
  ELSE DestroyOrder[(CHOOSE i \in DOMAIN DestroyOrder : DestroyOrder[i] = step) + 1]

\* the step that follows `step`: the command exits (process.exit(1)) only
\* when a prompted step failed and the user declined to go on
DestroyStepAfter(step, failed, goOn) ==
  IF failed /\ step \in PromptedSteps /\ ~goOn
  THEN "exited"
  ELSE DestroyOrder[(CHOOSE i \in DOMAIN DestroyOrder : DestroyOrder[i] = step) + 1]

\* the command at its start, with the DestructionResult of lines 90-98
NewDestroy(n, env, purge, metadata, backups) ==
  [n |-> n, pc |-> "connect", env |-> env, purge |-> purge, metadata |-> metadata,
   backups |-> backups, connected |-> FALSE, wasConnected |-> FALSE, aborted |-> FALSE,
   exit |-> 0, containerRemoved |-> FALSE, volumeRemoved |-> FALSE, backupsRemoved |-> 0,
   remoteStateRemoved |-> FALSE, localStateRemoved |-> FALSE, localAttempted |-> FALSE,
   failed |-> {}]

\* the command has left step `step`
Left(d, step, failed, goOn) ==
  LET next == DestroyStepAfter(step, failed, goOn)
  IN [d EXCEPT !.pc = next,
               !.failed = IF failed THEN d.failed \cup {step} ELSE d.failed,
               !.aborted = failed /\ step \in PromptedSteps /\ ~goOn,
               !.exit = IF next = "exited" /\ step # "local" THEN 1 ELSE 0]

DestroyKey == createInstanceKey(Project, dst.env)

DestroyAt(step) == dst # NoDestroy /\ dst.pc = step

DestroyFrame ==
  UNCHANGED <<paVars, reconVars, docker, image, runVars, waitVars, rt, fileVars, wop, xop, dkr,
              moreVars>>

\* the instances on the host and in the two state files before the command
DestroyInit ==
  /\ PaIdle
  /\ rec = NoRecon
  /\ nrec = 0
  /\ RunIdle
  /\ AuxIdle
  /\ docker = "running"
  /\ image = TRUE
  /\ local \in {[k \in Keys |-> EarlierRecord("dev")],
                [createEmptyState(Keys) EXCEPT
                   ![createInstanceKey(Project, "dev")] = EarlierRecord("dev")]}
  /\ remoteDir \in BOOLEAN
  /\ remote \in {createEmptyState(Keys), local}
  /\ ~remoteDir => remote = createEmptyState(Keys)
  /\ \E up \in SUBSET {ResourceName(Project, "dev")} :
       /\ containers = [n \in Names |->
                          IF n \in up THEN [status |-> "running", port |-> InitPortOf(n)]
                          ELSE NoContainer]
       /\ users = up
       /\ volumes \in {up, {ResourceName(Project, "dev")}}

\* lines 47-86: the record is looked up in local state (none: exit 1) and the
\* user types the environment name to confirm (otherwise: exit 0)
DestroyStart(env, purge) ==
  /\ dst = NoDestroy \/ (dst.pc = "exited" /\ dst.n < MaxDestroys)
  /\ LET metadata == getInstance(local, createInstanceKey(Project, env))
         n == IF dst = NoDestroy THEN 1 ELSE dst.n + 1
     IN \E confirmed \in BOOLEAN, backups \in {0, 2} :
          /\ metadata = NoRec => ~confirmed /\ backups = 0
          /\ ~confirmed => backups = 0
          /\ dst' = IF metadata # NoRec /\ confirmed
                    THEN NewDestroy(n, env, purge, metadata, backups)
                    ELSE [NewDestroy(n, env, purge, metadata, backups) EXCEPT
                            !.pc = "exited", !.exit = IF metadata = NoRec THEN 1 ELSE 0]
  /\ UNCHANGED <<storeVars, containers, volumes, users>>
  /\ DestroyFrame

\* lines 114: sshClient.connect(), outside the inner try
DestroyConnect ==
  /\ DestroyAt("connect")
  /\ \E c \in {"ok", "SSHConnectionError", "SSHAuthenticationError"} :
       dst' = IF c = "ok"
              THEN [dst EXCEPT !.pc = "container", !.connected = TRUE, !.wasConnected = TRUE]
              ELSE [dst EXCEPT !.pc = "exited", !.exit = 1]
  /\ UNCHANGED <<storeVars, containers, volumes, users>>
  /\ DestroyFrame

\* lines 117-152: docker rm -f <containerName>
DestroyContainer ==
  /\ DestroyAt("container")
  /\ LET name == dst.metadata.containerName
     IN IF containers[name] = NoContainer
        THEN /\ dst' = Left(dst, "container", FALSE, TRUE)
             /\ UNCHANGED <<containers, users>>
        ELSE \E o \in CommandOutcomes, goOn \in BOOLEAN :
               /\ o = "ok" => goOn
               /\ dst' = [Left(dst, "container", o # "ok", goOn) EXCEPT
                            !.containerRemoved = (o = "ok")]
               /\ containers' = IF o = "ok" THEN [containers EXCEPT ![name] = NoContainer]
                                ELSE containers
               /\ users' = IF o = "ok" THEN users \ {name} ELSE users
  /\ UNCHANGED <<storeVars, volumes>>
  /\ DestroyFrame

\* lines 154-203: docker volume rm <volume>; it cannot succeed while the
\* container is there ('volume is in use')
DestroyVolume ==
  /\ DestroyAt("volume")
  /\ LET vol == dst.metadata.volume
         inUse == containers[dst.metadata.containerName] # NoContainer
     IN IF vol \notin volumes
        THEN /\ dst' = Left(dst, "volume", FALSE, TRUE)
             /\ UNCHANGED volumes
        ELSE \E o \in CommandOutcomes, goOn \in BOOLEAN :
               /\ inUse => o # "ok"
               /\ o = "ok" => goOn
               /\ dst' = [Left(dst, "volume", o # "ok", goOn) EXCEPT
                            !.volumeRemoved = (o = "ok")]
               /\ volumes' = IF o = "ok" THEN volumes \ {vol} ELSE volumes
  /\ UNCHANGED <<storeVars, containers, users>>
  /\ DestroyFrame

\* lines 205-235: with --purge the backup files are counted and removed
DestroyBackups ==
  /\ DestroyAt("backups")
  /\ IF dst.purge /\ dst.backups > 0
     THEN \E o \in CommandOutcomes :
            dst' = [Left(dst, "backups", o # "ok", TRUE) EXCEPT
                      !.backupsRemoved = IF o = "ok" THEN dst.backups ELSE 0,
                      !.backups = IF o = "ok" THEN 0 ELSE dst.backups]
     ELSE dst' = Left(dst, "backups", FALSE, TRUE)
  /\ UNCHANGED <<storeVars, containers, volumes, users>>
  /\ DestroyFrame

\* lines 237-255: removeRemoteInstance, its error caught; then the finally
\* block disconnects
DestroyRemote ==
  /\ DestroyAt("remote")
  /\ \E r \in ExecOutcomes, e \in EnsureOutcomes, b \in BodyOutcomes :
       LET out == removeRemoteInstance(remoteDir, remote, DestroyKey, r, e, b)
       IN /\ remote' = out.file
          /\ remoteDir' = out.dir
          /\ dst' = [Left(dst, "remote", out.throws, TRUE) EXCEPT
                       !.remoteStateRemoved = out.removed, !.connected = FALSE]
  /\ UNCHANGED <<local, containers, volumes, users>>
  /\ DestroyFrame

\* lines 257-272: removeInstance on local state, its error caught; then the
\* summary and process.exit(0)
DestroyLocal ==
  /\ DestroyAt("local")
  /\ \E w \in LocalWrites :
       LET out == removeInstance(local, DestroyKey, w)
       IN /\ local' = out.local
          /\ dst' = [Left(dst, "local", out.throws, TRUE) EXCEPT
                       !.localAttempted = TRUE,
                       !.localStateRemoved = ~out.throws /\ local[DestroyKey] # NoRec]
  /\ UNCHANGED <<remote, remoteDir, containers, volumes, users>>
  /\ DestroyFrame

DestroyNext ==
  \/ \E env \in Envs, purge \in BOOLEAN : DestroyStart(env, purge)
  \/ DestroyConnect
  \/ DestroyContainer
  \/ DestroyVolume
  \/ DestroyBackups
  \/ DestroyRemote
  \/ DestroyLocal

SpecDestroy == DestroyInit /\ [][DestroyNext]_vars

(***************************************************************************)
(* Properties of the destroy command.                                      *)
(***************************************************************************)
DestroyEnded == dst # NoDestroy /\ dst.pc = "exited"

\* C30: a destroy command that connected and was not aborted at a prompt has
\* called removeInstance on local state by the time it ends, whichever of the
\* container, volume, backup and remote-state removals failed.
C30_LocalRemovalAlwaysAttempted ==
  (DestroyEnded /\ dst.wasConnected /\ ~dst.aborted) => dst.localAttempted

\* C30 witness: all four removals failed, the user went on twice, and the
\* record left local state
C30_Witness ==
  /\ DestroyEnded
  /\ dst.failed = {"container", "volume", "backups", "remote"}
  /\ ~dst.aborted
  /\ dst.localAttempted
  /\ dst.localStateRemoved
  /\ local[DestroyKey] = NoRec

(***************************************************************************)
(* Failures of provisionInstance: rollback, volume creation, the session.  *)
(***************************************************************************)
\* C31 (as claimed): when the remote state write of step 11 fails, the local
\* state is rolled back: the record written at the start of step 11 is no
\* longer in local state when provisionInstance fails.
C31_LocalStateRolledBack ==
  (RunEnded /\ result = StateSyncError("remote")) => local[RunKey] = NoRec

\* C32 (as claimed): when `docker volume create` of step 6 leaves no volume
\* behind (it exits non-zero), the run fails with VolumeCreationError at step
\* 'volume-creation' and no container start is issued.
C32_FailedVolumeCreateIsFatal ==
  ("volume-create" \in cmds /\ RunName \notin volumes) =>
    /\ RunEnded
    /\ result = Thrown("VolumeCreationError", "volume-creation")
    /\ "container-start" \notin cmds

\* C37 (as claimed): a run of provisionInstance that has returned or thrown
\* has closed the SSH session it opened in step 2.
C37_SessionClosedAtEnd == RunEnded => ~sess

\* C33 (as claimed): createAppUser completes only when mongosh exits 0 and
\* its output reports 'User created successfully' or 'User already exists',
\* that is, when the user is there; with every other outcome it throws, so
\* step 10 of a run is passed only with the application user in place.
C33_UserStepNeedsReport == ("user" \in steps) => RunName \in users

(***************************************************************************)
(* Further properties of reconcileInstanceState.                           *)
(***************************************************************************)
\* C35 (as claimed): a record held by local state only is removed only when
\* the probe established that the container is not running; when the probe
\* itself fails, local state is left as it was.
C35_RemovedOnlyOnPositiveProbe ==
  (rec.called /\ RecLocal0 # NoRec /\ RecRemote0 = NoRec) =>
    /\ rec.out.local[rec.key] = NoRec => rec.out.probe = "not-running"
    /\ rec.out.probe = "failed" => rec.out.local = rec.local0

\* the two copies agree on `key`: both hold no record, or both hold one with
\* the same port, containerName and dbName
AgreeOn(loc, file, key) ==
  /\ (loc[key] = NoRec) <=> (file[key] = NoRec)
  /\ (loc[key] # NoRec /\ file[key] # NoRec) => ~DifferOnComparedFields(loc[key], file[key])

\* C40 (as claimed): when a call returns without error the two copies agree
\* on whether a record exists for the key and on its port, containerName and
\* dbName; a call for the same key that follows at once returns
\* reconciled=false and starts no write.
C40_ReconcileConverges ==
  [][(nrec' = nrec + 1 /\ ~rec'.out.throws) =>
       /\ AgreeOn(rec'.out.local, rec'.out.remote, rec'.key)
       /\ (RecReturned /\ rec'.key = rec.key) =>
            (~rec'.out.reconciled /\ rec'.out.writes = {})]_vars

(***************************************************************************)
(* commands/sync.ts: computeDiff and the sync command.                     *)
(***************************************************************************)
\* JSON.stringify of one record, as computeDiff compares them (the tool
\* writes the fields of a record in one order)
stringifyInstance(inst) ==
  [f \in DOMAIN inst |-> IF f = "port" THEN Digits(inst[f]) ELSE inst[f]]

\* computeDiff: nextState starts as a copy of local; the entries of remote are
\* added or replace a differing local entry; the local-only keys are deleted
computeDiff(loc, file) ==
  LET added == {k \in Present(file) : loc[k] = NoRec}
      updated == {k \in Present(file) :
                    /\ loc[k] # NoRec
                    /\ stringifyInstance(loc[k]) # stringifyInstance(file[k])}
      removed == {k \in Present(loc) : file[k] = NoRec}
      merged == [k \in DOMAIN loc |-> IF k \in added \cup updated THEN file[k] ELSE loc[k]]
  IN [added |-> added, removed |-> removed, updated |-> updated,
      nextState |-> [k \in DOMAIN loc |-> IF k \in removed THEN NoRec ELSE merged[k]]]

SyncEnvs ==
  [connect : {"ok", "SSHConnectionError", "SSHAuthenticationError"},
   read : ExecOutcomes, lwrite : LocalWrites]

\* what a sync command did: the exit code, whether the diff was computed, the
\* collection readRemoteState returned, the diff, whether writeState was
\* called, and the local file afterwards
SyncOut(exit, read, remoteState, diff, wrote, lstatus, loc) ==
  [exit |-> exit, read |-> read, remoteState |-> remoteState, diff |-> diff,
   wrote |-> wrote, lfile |-> lstatus, local |-> loc]

NoDiff == [added |-> {}, removed |-> {}, updated |-> {}, nextState |-> createEmptyState(Keys)]

\* runSync: readState, connect, readRemoteState, disconnect, computeDiff and,
\* unless the three lists are empty, writeState(diff.nextState)
runSync(lstatus, loc, rstatus, file, e) ==
  LET ls == readStateFile(lstatus, loc)
      rs == readRemoteStateFile(rstatus, file, e.read)
      diff == computeDiff(ls.state, rs.state)
      wr == writeStateFile(lstatus, loc, diff.nextState, e.lwrite)
  IN IF ls.throws \/ e.connect # "ok" \/ rs.throws
     THEN SyncOut(1, FALSE, createEmptyState(Keys), NoDiff, FALSE, lstatus, loc)
     ELSE IF diff.added = {} /\ diff.removed = {} /\ diff.updated = {}
     THEN SyncOut(0, TRUE, rs.state, diff, FALSE, lstatus, loc)
     ELSE SyncOut(IF wr.throws THEN 1 ELSE 0, TRUE, rs.state, diff, TRUE, wr.status,
                  wr.local)

(***************************************************************************)
(* SpecSync: the sync command on divergent state files.                    *)
(***************************************************************************)
\* how many sync commands one behaviour of SpecSync runs
MaxSyncs == 2

\* the record kept of a sync command: the files before it and what it did
SyncRecord(lstatus, loc, rstatus, file, out) ==
  [lfile0 |-> lstatus, local0 |-> loc, rfile0 |-> rstatus, remote0 |-> file, out |-> out]

SyncInit ==
  /\ PaIdle
  /\ lfile \in {"absent", "valid"}
  /\ rfile \in {"absent", "valid", "unreadable"}
  /\ local \in [Keys -> {NoRec} \cup UNION {{EarlierRecord(e)} \cup DivergentRecords(e) : e \in Envs}]
  /\ remote \in [Keys -> {NoRec} \cup UNION {{EarlierRecord(e)} \cup DivergentRecords(e) : e \in Envs}]
  /\ \A e \in Envs :
       LET k == createInstanceKey(Project, e)
       IN /\ local[k] \in {NoRec, EarlierRecord(e)} \cup DivergentRecords(e)
          /\ remote[k] \in {NoRec, EarlierRecord(e)} \cup DivergentRecords(e)
          /\ e # "dev" => (local[k] \in {NoRec, EarlierRecord(e)}
                            /\ remote[k] \in {NoRec, EarlierRecord(e)})
  /\ lfile = "absent" => local = createEmptyState(Keys)
  /\ rfile = "absent" => remote = createEmptyState(Keys)
  /\ remoteDir = TRUE
  /\ containers = [n \in Names |-> NoContainer]
  /\ HostIdle
  /\ RunIdle
  /\ rec = NoRecon
  /\ nrec = 0
  /\ WaitIdle /\ RetryIdle /\ slog = <<>> /\ UnitIdle

SyncCall ==
  /\ Len(syn) < MaxSyncs
  /\ \E e \in SyncEnvs :
       LET out == runSync(lfile, local, rfile, remote, e)
       IN /\ lfile' = out.lfile
          /\ local' = out.local
          /\ syn' = Append(syn, SyncRecord(lfile, local, rfile, remote, out))
  /\ UNCHANGED <<paVars, remote, remoteDir, reconVars, hostVars, runVars, waitVars, rt,
                 rfile, slog, wop, xop, dkr, dst, kop, con, sys>>

SyncNext == SyncCall

SpecSync == SyncInit /\ [][SyncNext]_vars

LastSync == syn[Len(syn)]

\* C36 (as claimed): nextState of the diff holds exactly the keys and records
\* of the remote collection computeDiff was given; added, removed and updated are pairwise disjoint; the
\* command writes local state if and only if one of the three is non-empty;
\* after a sync that exits 0, local state equals the remote state on the host.
C36_SyncMirrorsRemote ==
  Len(syn) > 0 =>
    /\ LastSync.out.read =>
         /\ LastSync.out.diff.nextState = LastSync.out.remoteState
         /\ LastSync.out.diff.added \cap LastSync.out.diff.removed = {}
         /\ LastSync.out.diff.added \cap LastSync.out.diff.updated = {}
         /\ LastSync.out.diff.removed \cap LastSync.out.diff.updated = {}
         /\ LastSync.out.wrote <=>
              (LastSync.out.diff.added \cup LastSync.out.diff.removed
                 \cup LastSync.out.diff.updated) # {}
    /\ ~LastSync.out.read => ~LastSync.out.wrote
    /\ LastSync.out.exit = 0 => local = remote

(***************************************************************************)
(* SpecKey: the names accepted by validateConfig and `up`, the key         *)
(* setInstance writes for them and the next read of the state file. Names  *)
(* are sequences of characters.                                            *)
(***************************************************************************)
\* the longest name tried
MaxNameLen == 2

\* a letter, the separator of keys, and white space
NameChars == {"a", "/", " "}

NameTexts == UNION {[1..n -> NameChars] : n \in 0..MaxNameLen}

\* String.prototype.trim
RECURSIVE trim(_)
trim(s) ==
  IF s = <<>> THEN s
  ELSE IF Head(s) = " " THEN trim(Tail(s))
  ELSE IF s[Len(s)] = " " THEN trim(SubSeq(s, 1, Len(s) - 1))
  ELSE s

\* config/schema.ts validateConfig, for project and defaultEnv: TRUE when it
\* returns, FALSE when it throws ConfigValidationError
validateConfig(project, defaultEnv) ==
  /\ project # <<>> /\ trim(project) # <<>>
  /\ defaultEnv # <<>> /\ trim(defaultEnv) # <<>>

\* commands/up.ts: the environment argument, or config.defaultEnv without one
\* (the empty text stands for an argument that is absent or empty)
upEnvironment(environment, defaultEnv) ==
  IF environment = <<>> THEN defaultEnv ELSE environment

\* state/schema.ts createInstanceKey, on character sequences
instanceKey(project, env) == project \o <<"/">> \o env

\* String.prototype.split('/')
RECURSIVE split(_)
split(s) ==
  IF s = <<>> THEN <<<<>>>>
  ELSE LET rest == split(Tail(s))
       IN IF Head(s) = "/"
          THEN <<<<>>>> \o rest
          ELSE <<<<Head(s)>> \o rest[1]>> \o Tail(rest)

\* state/schema.ts validateInstanceKey: TRUE when it returns, FALSE when it
\* throws StateValidationError
validateInstanceKey(key) ==
  LET parts == split(key)
  IN ~(Len(parts) # 2 \/ parts[1] = <<>> \/ parts[2] = <<>>)

KeyInit ==
  /\ PaIdle
  /\ local = createEmptyState(Keys)
  /\ remote = createEmptyState(Keys)
  /\ remoteDir = TRUE
  /\ containers = [n \in Names |-> NoContainer]
  /\ HostIdle
  /\ RunIdle
  /\ rec = NoRecon
  /\ nrec = 0
  /\ WaitIdle /\ RetryIdle /\ StoreIdle
  /\ wop = NoWrite /\ xop = NoExec /\ dkr = NoDockerCall /\ dst = NoDestroy
  /\ syn = NoSync /\ con = NoPair /\ sys = NoSystem
  /\ kop \in [pc : {"start"}, project : NameTexts, defaultEnv : NameTexts,
              environment : NameTexts, key : {<<>>}, read : {"none"}]

KeyFrame ==
  UNCHANGED <<paVars, storeVars, reconVars, hostVars, runVars, waitVars, rt, fileVars,
              wop, xop, dkr, dst, syn, con, sys>>

\* `up [environment]`: loadConfig validates the configuration; the run ends
\* there when it throws
KeyLoadConfig ==
  /\ kop.pc = "start"
  /\ kop' = [kop EXCEPT !.pc = IF validateConfig(kop.project, kop.defaultEnv)
                                THEN "accepted" ELSE "rejected"]
  /\ KeyFrame

\* setInstance(config.project, env, metadata): the record is stored under
\* createInstanceKey(project, env); neither setInstance nor writeState
\* validates the key
KeySetInstance ==
  /\ kop.pc = "accepted"
  /\ kop' = [kop EXCEPT !.pc = "written",
                        !.key = instanceKey(kop.project,
                                            upEnvironment(kop.environment, kop.defaultEnv))]
  /\ KeyFrame

\* the next readState: validateState calls validateInstanceKey on each key
KeyRead ==
  /\ kop.pc = "written"
  /\ kop' = [kop EXCEPT !.pc = "read",
                        !.read = IF validateInstanceKey(kop.key) THEN "returns" ELSE "throws"]
  /\ KeyFrame

KeyNext == KeyLoadConfig \/ KeySetInstance \/ KeyRead

SpecKey == KeyInit /\ [][KeyNext]_vars

\* the number of '/' in a text
RECURSIVE Slashes(_)
Slashes(s) ==
  IF s = <<>> THEN 0 ELSE (IF Head(s) = "/" THEN 1 ELSE 0) + Slashes(Tail(s))

PairOrder ==
  <<"allocate-local", "allocate-remote", "container", "ready", "user", "local-read",
    "local-write", "remote-read", "remote-write", "done">>

PairStepAfter(step) ==
  PairOrder[1 + CHOOSE i \in 1..(Len(PairOrder) - 1) : PairOrder[i] = step]

\* a run: where it is, the collections it last read, and its port
PairStart ==
  [pc |-> PairOrder[1], localState |-> createEmptyState(Keys),
   remoteState |-> createEmptyState(Keys), port |-> 0]

PairMetadata(env) == InstanceMetadata(Project, env, con[env].port, Cred1, Timestamp(1))

PairAt(env, step) == con[env].pc = step

PairFrame ==
  UNCHANGED <<paVars, remoteDir, reconVars, docker, image, runVars, waitVars, rt,
              fileVars, wop, xop, dkr, dst, syn, kop, sys>>

PairInit ==
  /\ PaIdle
  /\ local = createEmptyState(Keys)
  /\ remote = createEmptyState(Keys)
  /\ remoteDir = TRUE
  /\ containers = [n \in Names |-> NoContainer]
  /\ docker = "running" /\ volumes = {} /\ image = TRUE /\ users = {}
  /\ RunIdle
  /\ rec = NoRecon
  /\ nrec = 0
  /\ WaitIdle /\ RetryIdle /\ StoreIdle
  /\ wop = NoWrite /\ xop = NoExec /\ dkr = NoDockerCall /\ dst = NoDestroy
  /\ syn = NoSync /\ kop = NoKeyOp /\ sys = NoSystem
  /\ con = [e \in Envs |-> PairStart]

\* step 4, first await: readState
PairAllocateLocal(env) ==
  /\ PairAt(env, "allocate-local")
  /\ con' = [con EXCEPT ![env].localState = readState(local),
                        ![env].pc = PairStepAfter("allocate-local")]
  /\ UNCHANGED <<storeVars, containers, volumes, users>>
  /\ PairFrame

\* step 4, second await: readRemoteState, then findNextPort
PairAllocateRemote(env) ==
  /\ PairAt(env, "allocate-remote")
  /\ LET rd == readRemoteState(remote, "resolve")
         found == findNextPort(con[env].localState, BasePort, rd.state)
     IN con' = [con EXCEPT ![env].remoteState = rd.state,
                           ![env].port = found.port,
                           ![env].pc = PairStepAfter("allocate-remote")]
  /\ UNCHANGED <<storeVars, containers, volumes, users>>
  /\ PairFrame

\* step 8: startMongoContainer; the run throws when the container is not up
PairContainer(env) ==
  /\ PairAt(env, "container")
  /\ \E x \in {"up", "refused"} :
       LET out == startMongoContainer(containers, volumes, ResourceName(Project, env),
                                      con[env].port, ResourceName(Project, env),
                                      [run |-> x, exec |-> "resolve", ps |-> "resolve"])
       IN /\ containers' = out.containers
          /\ volumes' = out.volumes
          /\ con' = [con EXCEPT ![env].pc = IF out.throws THEN "failed"
                                            ELSE PairStepAfter("container")]
  /\ UNCHANGED <<storeVars, users>>
  /\ PairFrame

\* step 9: waitForMongoReady on a mongod that answers once its container runs
PairReady(env) ==
  /\ PairAt(env, "ready")
  /\ LET out == waitForMongoReady(containers, ResourceName(Project, env),
                                  [ready |-> 1, stop |-> 0])
     IN /\ containers' = out.containers
        /\ con' = [con EXCEPT ![env].pc = IF out.throws THEN "failed"
                                          ELSE PairStepAfter("ready")]
  /\ UNCHANGED <<storeVars, volumes, users>>
  /\ PairFrame

\* step 10: createAppUser
PairUser(env) ==
  /\ PairAt(env, "user")
  /\ LET out == createAppUser(containers, users, ResourceName(Project, env), "printed")
     IN /\ users' = out.users
        /\ con' = [con EXCEPT ![env].pc = IF out.throws THEN "failed"
                                          ELSE PairStepAfter("user")]
  /\ UNCHANGED <<storeVars, containers, volumes>>
  /\ PairFrame

\* step 11, setInstance: readState
PairLocalRead(env) ==
  /\ PairAt(env, "local-read")
  /\ con' = [con EXCEPT ![env].localState = readState(local),
                        ![env].pc = PairStepAfter("local-read")]
  /\ UNCHANGED <<storeVars, containers, volumes, users>>
  /\ PairFrame

\* step 11, setInstance: writeState of the collection read, with the record
PairLocalWrite(env) ==
  /\ PairAt(env, "local-write")
  /\ local' = writeState(local,
                         [con[env].localState EXCEPT
                            ![createInstanceKey(Project, env)] = PairMetadata(env)],
                         "ok").local
  /\ con' = [con EXCEPT ![env].pc = PairStepAfter("local-write")]
  /\ UNCHANGED <<remote, remoteDir, containers, volumes, users>>
  /\ PairFrame

\* step 11: readRemoteState
PairRemoteRead(env) ==
  /\ PairAt(env, "remote-read")
  /\ con' = [con EXCEPT ![env].remoteState = readRemoteState(remote, "resolve").state,
                        ![env].pc = PairStepAfter("remote-read")]
  /\ UNCHANGED <<storeVars, containers, volumes, users>>
  /\ PairFrame

\* step 11: writeRemoteState of the collection read, with the record
PairRemoteWrite(env) ==
  /\ PairAt(env, "remote-write")
  /\ remote' = writeRemoteState(remoteDir, remote,
                                [con[env].remoteState EXCEPT
                                   ![createInstanceKey(Project, env)] = PairMetadata(env)],
                                "resolve", "run").file
  /\ con' = [con EXCEPT ![env].pc = PairStepAfter("remote-write")]
  /\ UNCHANGED <<local, remoteDir, containers, volumes, users>>
  /\ PairFrame

\* a running container stops (mongod exits, the host restarts it later)
PairContainerStops(env) ==
  /\ containers[ResourceName(Project, env)].status = "running"
  /\ con[env].pc \in {"local-read", "local-write", "remote-read", "remote-write"}
  /\ containers' = [containers EXCEPT ![ResourceName(Project, env)].status = "stopped"]
  /\ UNCHANGED <<storeVars, volumes, users, con>>
  /\ PairFrame

PairNext ==
  \E env \in Envs :
    \/ PairAllocateLocal(env)
    \/ PairAllocateRemote(env)
    \/ PairContainer(env)
    \/ PairReady(env)
    \/ PairUser(env)
    \/ PairLocalRead(env)
    \/ PairLocalWrite(env)
    \/ PairRemoteRead(env)
    \/ PairRemoteWrite(env)
    \/ PairContainerStops(env)

SpecPair == PairInit /\ [][PairNext]_vars

PairBothDone == \A env \in Envs : con[env].pc = "done"

\* C39 (as claimed): when both runs have completed, remote state holds the
\* record of either key and the two records have different ports.
C39_BothRecordsDistinctPorts ==
  PairBothDone =>
    /\ \A env \in Envs : remote[createInstanceKey(Project, env)] # NoRec
    /\ \A e1, e2 \in Envs :
         (e1 # e2 /\ remote[createInstanceKey(Project, e1)] # NoRec
                  /\ remote[createInstanceKey(Project, e2)] # NoRec) =>
           remote[createInstanceKey(Project, e1)].port
             # remote[createInstanceKey(Project, e2)].port

(***************************************************************************)
(* SpecSystem: the commands `up`, `destroy` and `sync` issued one after    *)
(* the other from one controller against a host that starts fresh. The     *)
(* steps of `up` and of `destroy` are those of Spec and of SpecDestroy.     *)
(***************************************************************************)
\* how many sync commands one behaviour of SpecSystem runs
MaxSystemSyncs == 1

\* what is left of a destroy command whose process has ended: their number
DestroyGone(n) ==
  [NewDestroy(n, "dev", FALSE, NoRec, 0) EXCEPT !.pc = "exited"]

\* no command is running on the controller
SystemIdle ==
  /\ pc = "idle" /\ result = NoOutcome
  /\ IF dst = NoDestroy THEN TRUE ELSE dst = DestroyGone(dst.n)

SystemInit ==
  /\ PaIdle
  /\ local = createEmptyState(Keys)
  /\ remote = createEmptyState(Keys)
  /\ remoteDir \in BOOLEAN
  /\ containers = [n \in Names |-> NoContainer]
  /\ HostIdle
  /\ rec = NoRecon
  /\ nrec = 0
  /\ RunIdle
  /\ WaitIdle /\ RetryIdle /\ StoreIdle
  /\ wop = NoWrite /\ xop = NoExec /\ dkr = NoDockerCall /\ dst = NoDestroy
  /\ syn = NoSync /\ kop = NoKeyOp /\ con = NoPair
  /\ sys = [pc |-> "ready", syncs |-> 0]

\* `dbx up <env>`
SystemUp(env) == SystemIdle /\ ProvStart(env)

\* `dbx destroy <env>`
SystemDestroy(env) == SystemIdle /\ DestroyStart(env, FALSE)

\* `dbx sync`, on state files that are there and readable
SystemSync ==
  /\ SystemIdle
  /\ sys.syncs < MaxSystemSyncs
  /\ \E e \in SyncEnvs :
       local' = runSync("valid", local, "valid", remote, e).local
  /\ sys' = [sys EXCEPT !.syncs = sys.syncs + 1]
  /\ UNCHANGED <<paVars, remote, remoteDir, reconVars, hostVars, runVars, waitVars, rt,
                 fileVars, wop, xop, dkr, dst, syn, kop, con>>

\* the process of an `up` command ends: what it held in memory is gone
SystemUpExits ==
  /\ pc = "idle" /\ result # NoOutcome
  /\ runEnv' = "dev"
  /\ sess' = FALSE
  /\ allocPort' = 0
  /\ creds' = NoCreds
  /\ reconMeta' = NoRec
  /\ steps' = {}
  /\ cmds' = {}
  /\ result' = NoOutcome
  /\ second' = FALSE
  /\ sessions' = 0
  /\ UNCHANGED <<pc, nruns, provisioned, auxVars, paVars, storeVars, hostVars, reconVars>>

\* the process of a `destroy` command ends
SystemDestroyExits ==
  /\ dst # NoDestroy /\ dst.pc = "exited" /\ dst # DestroyGone(dst.n)
  /\ dst' = DestroyGone(dst.n)
  /\ UNCHANGED <<storeVars, containers, volumes, users>>
  /\ DestroyFrame

SystemNext ==
  \/ \E env \in Envs : SystemUp(env)
  \/ ProvConnect
  \/ ProvReconcile
  \/ ProvDocker
  \/ ProvAllocate
  \/ ProvVolume
  \/ ProvImage
  \/ ProvContainer
  \/ ProvReady
  \/ ProvUser
  \/ ProvLocal
  \/ ProvRemote
  \/ \E env \in Envs : SystemDestroy(env)
  \/ DestroyConnect
  \/ DestroyContainer
  \/ DestroyVolume
  \/ DestroyBackups
  \/ DestroyRemote
  \/ DestroyLocal
  \/ SystemSync
  \/ SystemUpExits
  \/ SystemDestroyExits

SpecSystem == SystemInit /\ [][SystemNext]_vars

\* C34 (as claimed): the port findNextPort returns in step 4 of a run is not
\* bound by a running container (every container of this host was created
\* by `up`).
C34_AllocatedPortIsFree ==
  (pc = "volume" /\ "allocate" \in steps) => allocPort \notin BoundPorts(containers)

====
